---- MODULE Spec2Model ----
(***************************************************************************)
(* Model of the WebSocket relay hub (type Server, src/database.go 388-881, *)
(* and the message handlers of src/handlers.go 1-191).                     *)
(*                                                                         *)
(* One session is one connID.  Every goroutine of the program is a small   *)
(* state machine: HandleConnection (hpc), readMessages (rpc),              *)
(* writeMessages (wpc), the single ProcessMessages goroutine started by    *)
(* main (dpc) and the caller of Stop (spc).  A step of the model is one    *)
(* critical section of Server.mu or one channel operation.                 *)
(***************************************************************************)
EXTENDS Integers, Sequences, FiniteSets, TLC

----------------------------------------------------------------------------
(* Bounds of the model.                                                    *)

\* number of connection ids the HTTP front end ever hands to HandleConnection
NumConns == 3
\* ServerConfig.MaxConnections as configured for the model (default 10000)
MaxConnections == 2
\* capacity of Connection.outChan (100 in the code)
OutChanCap == 2
\* capacity of Server.messageQueue (10000 in the code)
QueueCap == 1
\* number of frames the readers decode in one behaviour
MaxMsgs == 1
\* number of accepts refused in one behaviour
MaxRefusals == 2

ConnIDs == 1 .. NumConns
Channels == {"general"}

\* the user_id query parameter of the upgrade request that carries connID
UserOf(connID) == IF connID % 2 = 1 THEN "alice" ELSE "bob"

----------------------------------------------------------------------------
VARIABLES
    connections,      \* Server.connections: the registered connIDs
    connectionWSMap,  \* Server.connectionWSMap: connIDs with a transport entry
    channels,         \* Server.channels: channel -> set of connIDs
    connChannels,     \* Connection.Channels of each connection object
    outChan,          \* Connection.outChan: buffered messages
    outClosed,        \* close(conn.outChan) has run
    wsClosed,         \* the connection's transport has been closed locally
    messageQueue,     \* Server.messageQueue
    done,             \* Server.done is closed
    hpc,              \* position of HandleConnection(connID)
    rpc,              \* position of readMessages(connID)
    rmsg,             \* the message a reader holds while it sends to messageQueue
    wpc,              \* position of writeMessages(connID)
    dpc,              \* position of ProcessMessages / processMessage
    dconn,            \* processMessage: conn
    dmsg,             \* processMessage: msg
    dout,             \* the message of the broadcast in progress
    dpending,         \* the broadcast's copy of the connection ids, less those sent to
    dtarget,          \* SendToConnection: connID, once the lookup has found it
    dnext,            \* where the handler continues after the broadcast
    dusers,           \* PresenceHandler: users
    lastSend,         \* outcome of the last SendToConnection
    spc,              \* position of Stop
    onConnectCalls,   \* invocations of onConnectHook per connection
    onDisconnectCalls,\* invocations of onDisconnectHook per connection
    afterCalls,       \* invocations of afterMessageHook
    refusals,         \* accepts refused with "max connections reached"
    nread,            \* frames received so far
    wire,             \* the messages written to each connection's transport
    underLock,        \* the calls made so far while s.mu was held
    hookSaw,          \* what onDisconnectHook found in the registry when called
    expired           \* the connection's read deadline has passed without a frame

registry == <<connections, connectionWSMap, channels, connChannels>>
outbox == <<outChan, outClosed>>
accept == <<hpc, onConnectCalls, refusals>>
reader == <<rpc, rmsg, nread>>
dispatcher == <<dpc, dconn, dmsg, dout, dpending, dtarget, dnext, dusers, lastSend,
               afterCalls>>
stop == <<done, spc>>
observed == <<wire, underLock, hookSaw, expired>>

vars == <<connections, connectionWSMap, channels, connChannels, outChan, outClosed,
          wsClosed, messageQueue, done, hpc, rpc, rmsg, wpc, dpc, dconn, dmsg, dout,
          dpending, dtarget, dnext, dusers, lastSend, spc, onConnectCalls,
          onDisconnectCalls, afterCalls, refusals, nread, wire, underLock, hookSaw,
          expired>>

----------------------------------------------------------------------------
(* Messages.                                                               *)

\* Message.Payload: isNil for the nil map of a frame without payload; of a map
\* the entries the handlers read or write
NoPayload == [isNil |-> TRUE, action |-> "", user |-> "", users |-> <<>>]
NoMsg == [id |-> <<0, 0>>, type |-> "", sender |-> "", recipient |-> "",
          channel |-> "", payload |-> NoPayload]

\* the frames a client sends: type, recipient, channel and payload.action; the
\* client leaves the sender empty
Frame(t, r, c, a) ==
    [type |-> t, sender |-> "", recipient |-> r, channel |-> c, action |-> a,
     nopayload |-> FALSE]

\* the frame f sent without its payload field
WithoutPayload(f) == [f EXCEPT !.nopayload = TRUE, !.action = ""]

\* the frame f with the sender field filled in by the client
FrameFrom(u, f) == [f EXCEPT !.sender = u]
ClientFrames ==
    {Frame("chat:group", "", c, "") : c \in Channels}
    \cup {Frame("chat", "", c, "") : c \in Channels}
    \cup {Frame("system:presence", "", c, "join") : c \in Channels}
    \cup {Frame("event:custom", "", "", "")}

\* readMessages: the decoded frame after the id and sender defaults
Normalize(connID, k, f) ==
    [id |-> <<connID, k>>, type |-> f.type,
     sender |-> IF f.sender = "" THEN UserOf(connID) ELSE f.sender,
     recipient |-> f.recipient, channel |-> f.channel,
     payload |-> [isNil |-> f.nopayload, action |-> f.action, user |-> "",
                  users |-> <<>>]]

----------------------------------------------------------------------------
(* Topology registry.                                                      *)

Init ==
    /\ connections = {}
    /\ connectionWSMap = {}
    /\ channels = [c \in {} |-> {}]
    /\ connChannels = [c \in ConnIDs |-> {}]
    /\ outChan = [c \in ConnIDs |-> <<>>]
    /\ outClosed = [c \in ConnIDs |-> FALSE]
    /\ wsClosed = [c \in ConnIDs |-> FALSE]
    /\ messageQueue = <<>>
    /\ done = FALSE
    /\ hpc = [c \in ConnIDs |-> "free"]
    /\ rpc = [c \in ConnIDs |-> "none"]
    /\ rmsg = [c \in ConnIDs |-> NoMsg]
    /\ wpc = [c \in ConnIDs |-> "none"]
    /\ dpc = "idle"
    /\ dconn = 0
    /\ dmsg = NoMsg
    /\ dout = NoMsg
    /\ dpending = {}
    /\ dtarget = 0
    /\ dnext = "after"
    /\ dusers = <<>>
    /\ lastSend = "none"
    /\ spc = "none"
    /\ onConnectCalls = [c \in ConnIDs |-> 0]
    /\ onDisconnectCalls = [c \in ConnIDs |-> 0]
    /\ afterCalls = 0
    /\ refusals = 0
    /\ nread = 0
    /\ wire = [c \in ConnIDs |-> <<>>]
    /\ underLock = {}
    /\ hookSaw = [c \in ConnIDs |-> "none"]
    /\ expired = [c \in ConnIDs |-> FALSE]

\* the registry and the count of disconnect hook calls, as one value
Topology ==
    [connections |-> connections, connectionWSMap |-> connectionWSMap,
     channels |-> channels, connChannels |-> connChannels,
     onDisconnectCalls |-> onDisconnectCalls]

\* s.channels after "delete(chans, connID); if len(chans) == 0 { delete(s.channels, channel) }"
\* for every channel of chs that is a key of s.channels
DeleteFrom(chans, connID, chs) ==
    LET left(c) == IF c \in chs THEN chans[c] \ {connID} ELSE chans[c]
        keys == {c \in DOMAIN chans : ~(c \in chs /\ left(c) = {})}
    IN  [c \in keys |-> left(c)]

DeleteFromChannels(connID, chs) == DeleteFrom(channels, connID, chs)

\* s.channels after "s.channels[channel][connID] = true", the key made when absent
AddTo(chans, connID, channel) ==
    [c \in DOMAIN chans \cup {channel} |->
        IF c = channel
        THEN (IF c \in DOMAIN chans THEN chans[c] ELSE {}) \cup {connID}
        ELSE chans[c]]

AddToChannel(connID, channel) == AddTo(channels, connID, channel)

\* a SubscribeToChannel that takes a subscribed connection out again
Subscribed_Toggle(t, connID, channel) ==
    IF connID \in t.connections
    THEN IF channel \in t.connChannels[connID]
         THEN [t EXCEPT !.connChannels[connID] = @ \ {channel},
                        !.channels = DeleteFrom(t.channels, connID, {channel})]
         ELSE [t EXCEPT !.connChannels[connID] = @ \cup {channel},
                        !.channels = AddTo(t.channels, connID, channel)]
    ELSE t

\* SubscribeToChannel as a function of the topology t: the error return for
\* an id that is not in s.connections changes nothing; else the channel
\* enters conn.Channels and the id enters the channel's set
Subscribed(t, connID, channel) ==
    IF connID \in t.connections
    THEN [t EXCEPT !.connChannels[connID] = @ \cup {channel},
                   !.channels = AddTo(t.channels, connID, channel)]
    ELSE t

\* Server.SubscribeToChannel, one critical section of s.mu
SubscribeToChannel(connID, channel) ==
    /\ connChannels' = Subscribed(Topology, connID, channel).connChannels
    /\ channels' = Subscribed(Topology, connID, channel).channels

\* UnsubscribeFromChannel that forgets the registry side of the map
UnsubscribeFromChannel_ConnOnly(connID, channel) ==
    IF connID \in connections
    THEN /\ connChannels' = [connChannels EXCEPT ![connID] = @ \ {channel}]
         /\ UNCHANGED channels
    ELSE UNCHANGED <<connChannels, channels>>

\* an UnsubscribeFromChannel that leaves the emptied set in s.channels
Unsubscribed_KeepEmpty(t, connID, channel) ==
    IF connID \in t.connections
    THEN [t EXCEPT !.connChannels[connID] = @ \ {channel},
                   !.channels = [c \in DOMAIN t.channels |->
                                    IF c = channel THEN t.channels[c] \ {connID}
                                    ELSE t.channels[c]]]
    ELSE t

\* UnsubscribeFromChannel as a function of the topology t: the error return
\* for an id that is not in s.connections changes nothing; else the channel
\* leaves conn.Channels, the id leaves the channel's set, and the set goes
\* when it is empty
Unsubscribed(t, connID, channel) ==
    IF connID \in t.connections
    THEN [t EXCEPT !.connChannels[connID] = @ \ {channel},
                   !.channels = DeleteFrom(t.channels, connID, {channel})]
    ELSE t

\* Server.UnsubscribeFromChannel, one critical section of s.mu
UnsubscribeFromChannel(connID, channel) ==
    /\ connChannels' = Unsubscribed(Topology, connID, channel).connChannels
    /\ channels' = Unsubscribed(Topology, connID, channel).channels

\* removeConnection that deletes without calling the disconnect hook
removeConnection_NoHook(connID) ==
    IF connID \in connections
    THEN /\ connections' = connections \ {connID}
         /\ connectionWSMap' = connectionWSMap \ {connID}
         /\ channels' = DeleteFromChannels(connID, connChannels[connID])
         /\ connChannels' = [connChannels EXCEPT ![connID] = {}]
         /\ UNCHANGED <<onDisconnectCalls, hookSaw, underLock>>
    ELSE UNCHANGED <<onDisconnectCalls, connections, connectionWSMap, channels,
                     connChannels, hookSaw, underLock>>

\* what a hook called with conn finds when it looks the connection up in the
\* registry as it is in regs = <<connections, channels>>
HookView(connID, regs) ==
    [registered |-> connID \in regs[1],
     subscribed |-> \A ch \in connChannels[connID] :
                        ch \in DOMAIN regs[2] /\ connID \in regs[2][ch]]

\* removeConnection that calls the disconnect hook after the deletes
removeConnection_HookLast(connID) ==
    IF connID \in connections
    THEN /\ onDisconnectCalls' = [onDisconnectCalls EXCEPT ![connID] = @ + 1]
         /\ connections' = connections \ {connID}
         /\ connectionWSMap' = connectionWSMap \ {connID}
         /\ channels' = DeleteFromChannels(connID, connChannels[connID])
         /\ connChannels' = [connChannels EXCEPT ![connID] = {}]
         /\ hookSaw' = [hookSaw EXCEPT ![connID] =
                            HookView(connID, <<connections', channels'>>)]
         /\ underLock' = underLock \cup {"onDisconnectHook"}
    ELSE UNCHANGED <<onDisconnectCalls, connections, connectionWSMap, channels,
                     connChannels, hookSaw, underLock>>

\* a removeConnection without the "if !exists" return
Unregister_NoExists(t, connID) ==
    [connections |-> t.connections \ {connID},
     connectionWSMap |-> t.connectionWSMap \ {connID},
     channels |-> DeleteFrom(t.channels, connID, t.connChannels[connID]),
     connChannels |-> [t.connChannels EXCEPT ![connID] = {}],
     onDisconnectCalls |-> [t.onDisconnectCalls EXCEPT ![connID] = @ + 1]]

\* removeConnection as a function of the topology t: nothing for an id that
\* is not in s.connections; else the hook call, the two deletes, and the
\* delete from every channel of conn.Channels, of which the empty ones go
Unregister(t, connID) ==
    IF connID \in t.connections
    THEN [connections |-> t.connections \ {connID},
          connectionWSMap |-> t.connectionWSMap \ {connID},
          channels |-> DeleteFrom(t.channels, connID, t.connChannels[connID]),
          connChannels |-> [t.connChannels EXCEPT ![connID] = {}],
          onDisconnectCalls |-> [t.onDisconnectCalls EXCEPT ![connID] = @ + 1]]
    ELSE t

\* Server.removeConnection, one critical section of s.mu; the disconnect hook
\* runs inside it, with the write lock held, before the deletes.  The removed
\* Connection is no longer reachable through the registry and nothing reads
\* its Channels again, so the model forgets them.
removeConnection(connID) ==
    /\ connections' = Unregister(Topology, connID).connections
    /\ connectionWSMap' = Unregister(Topology, connID).connectionWSMap
    /\ channels' = Unregister(Topology, connID).channels
    /\ connChannels' = Unregister(Topology, connID).connChannels
    /\ onDisconnectCalls' = Unregister(Topology, connID).onDisconnectCalls
    /\ IF connID \in connections
       THEN /\ hookSaw' = [hookSaw EXCEPT ![connID] =
                               HookView(connID, <<connections, channels>>)]
            /\ underLock' = underLock \cup {"onDisconnectHook"}
       ELSE UNCHANGED <<hookSaw, underLock>>

\* every order in which a range over a Go map with the keys S may visit them
Orders(S) ==
    {q \in [1 .. Cardinality(S) -> S] : \A i, j \in 1 .. Cardinality(S) : q[i] = q[j] => i = j}

\* the loop of GetActiveUsersInChannel without the seen map
CollectUsers_NoSeen(order) ==
    LET users[i \in 0 .. Len(order)] ==
            IF i = 0 THEN <<>>
            ELSE IF order[i] \in connections
                 THEN Append(users[i - 1], UserOf(order[i]))
                 ELSE users[i - 1]
    IN  users[Len(order)]

\* the loop of GetActiveUsersInChannel over the ids in the order the range
\* visits them: the user of an id that is in s.connections is appended unless
\* seen already
CollectUsers(order) ==
    LET users[i \in 0 .. Len(order)] ==
            IF i = 0 THEN <<>>
            ELSE IF /\ order[i] \in connections
                    /\ \A j \in 1 .. Len(users[i - 1]) : users[i - 1][j] # UserOf(order[i])
                 THEN Append(users[i - 1], UserOf(order[i]))
                 ELSE users[i - 1]
    IN  users[Len(order)]

\* Server.GetActiveUsersInChannel: the lists it may return, one per order of
\* the range over s.channels[channel]; the empty list for an absent channel
GetActiveUsersInChannel(channel) ==
    IF channel \in DOMAIN channels
    THEN {CollectUsers(order) : order \in Orders(channels[channel])}
    ELSE {<<>>}

\* exported calls of the library, made by the embedding application
Subscribe(connID, channel) ==
    /\ SubscribeToChannel(connID, channel)
    /\ UNCHANGED <<connections, connectionWSMap, outbox, wsClosed, messageQueue, stop,
                   accept, rpc, rmsg, nread, wpc, dispatcher, onDisconnectCalls, observed>>

Unsubscribe(connID, channel) ==
    /\ UnsubscribeFromChannel(connID, channel)
    /\ UNCHANGED <<connections, connectionWSMap, outbox, wsClosed, messageQueue, stop,
                   accept, rpc, rmsg, nread, wpc, dispatcher, onDisconnectCalls, observed>>

----------------------------------------------------------------------------
(* HandleConnection.                                                       *)

\* the front end makes a fresh connID per request: the model hands them out
\* in increasing order
NextID(connID) == hpc[connID] = "free" /\ \A c \in 1 .. connID - 1 : hpc[c] # "free"

\* the ceiling test with ">" for ">="
AtCapacity_OffByOne == Cardinality(connections) > MaxConnections

\* "len(s.connections) >= s.maxConnections"
AtCapacity == Cardinality(connections) >= MaxConnections

\* a refusal that runs after the insert and leaves the connection behind
HandleConnectionRefuse_Leak ==
    /\ AtCapacity
    /\ refusals < MaxRefusals
    /\ refusals' = refusals + 1
    /\ \E c \in ConnIDs :
          /\ NextID(c)
          /\ connections' = connections \cup {c}
          /\ connectionWSMap' = connectionWSMap \cup {c}
          /\ hpc' = [hpc EXCEPT ![c] = "failed"]
    /\ UNCHANGED <<channels, connChannels, outbox, wsClosed, messageQueue, stop,
                   onConnectCalls, reader, wpc, dispatcher, onDisconnectCalls, observed>>

\* first critical section, ceiling reached: ws.Close() and the error return.
\* The connID of the refused request is never stored.
HandleConnectionRefuse ==
    /\ AtCapacity
    /\ refusals < MaxRefusals
    /\ refusals' = refusals + 1
    /\ UNCHANGED <<registry, outbox, wsClosed, messageQueue, stop, hpc, onConnectCalls,
                   reader, wpc, dispatcher, onDisconnectCalls, observed>>

\* first critical section, below the ceiling: the lock is released again
HandleConnectionCheck(connID) ==
    /\ NextID(connID)
    /\ ~AtCapacity
    /\ hpc' = [hpc EXCEPT ![connID] = "checked"]
    /\ UNCHANGED <<registry, outbox, wsClosed, messageQueue, stop, onConnectCalls,
                   refusals, reader, wpc, dispatcher, onDisconnectCalls, observed>>

\* second critical section: the new Connection enters both maps
HandleConnectionInsert(connID) ==
    /\ hpc[connID] = "checked"
    /\ connections' = connections \cup {connID}
    /\ connectionWSMap' = connectionWSMap \cup {connID}
    /\ hpc' = [hpc EXCEPT ![connID] = "inserted"]
    /\ UNCHANGED <<channels, connChannels, outbox, wsClosed, messageQueue, stop,
                   onConnectCalls, refusals, reader, wpc, dispatcher, onDisconnectCalls, observed>>

\* the connect hook returns nil: both goroutines start
HandleConnectionStart(connID) ==
    /\ hpc[connID] = "inserted"
    /\ onConnectCalls' = [onConnectCalls EXCEPT ![connID] = @ + 1]
    /\ hpc' = [hpc EXCEPT ![connID] = "started"]
    /\ rpc' = [rpc EXCEPT ![connID] = "read"]
    /\ wpc' = [wpc EXCEPT ![connID] = "run"]
    /\ UNCHANGED <<registry, outbox, wsClosed, messageQueue, stop, refusals, rmsg, nread, dispatcher, onDisconnectCalls, observed>>

\* a hook error path that closes the transport without removeConnection
HandleConnectionHookError_NoRemove(connID) ==
    /\ hpc[connID] = "inserted"
    /\ onConnectCalls' = [onConnectCalls EXCEPT ![connID] = @ + 1]
    /\ wsClosed' = [wsClosed EXCEPT ![connID] = TRUE]
    /\ hpc' = [hpc EXCEPT ![connID] = "failed"]
    /\ UNCHANGED <<registry, outbox, messageQueue, stop, refusals, reader, wpc,
                   dispatcher, wire, expired, onDisconnectCalls, hookSaw, underLock>>

\* the connect hook returns an error: removeConnection, ws.Close()
HandleConnectionHookError(connID) ==
    /\ hpc[connID] = "inserted"
    /\ onConnectCalls' = [onConnectCalls EXCEPT ![connID] = @ + 1]
    /\ removeConnection(connID)
    /\ wsClosed' = [wsClosed EXCEPT ![connID] = TRUE]
    /\ hpc' = [hpc EXCEPT ![connID] = "failed"]
    /\ UNCHANGED <<outbox, messageQueue, stop, refusals, reader, wpc,
                   dispatcher, wire, expired>>

----------------------------------------------------------------------------
(* readMessages and writeMessages.                                         *)

\* DefaultBeforeHook, the hook main registers: a message without a type is
\* refused (the sender default has been applied by readMessages already)
DefaultBeforeHook(msg) == IF msg.type = "" THEN "error" ELSE "nil"

\* a reader that does not call the before hook
ReadFrame_NoHook(connID, f) ==
    /\ rpc[connID] = "read"
    /\ ~wsClosed[connID]
    /\ ~expired[connID]
    /\ nread' = nread + 1
    /\ rmsg' = [rmsg EXCEPT ![connID] = Normalize(connID, nread + 1, f)]
    /\ rpc' = [rpc EXCEPT ![connID] = "enqueue"]
    /\ UNCHANGED <<registry, outbox, wsClosed, messageQueue, stop, accept, wpc,
                   dispatcher, onDisconnectCalls, observed>>

\* ws.ReadJSON returns a frame: after the defaults the before hook is called;
\* on its error the reader continues with the next ReadJSON, otherwise it goes
\* on to "s.messageQueue <- ..."
ReadFrame(connID, f) ==
    /\ rpc[connID] = "read"
    /\ ~wsClosed[connID]
    /\ ~expired[connID]
    /\ nread' = nread + 1
    /\ IF DefaultBeforeHook(Normalize(connID, nread + 1, f)) = "error"
       THEN UNCHANGED <<rmsg, rpc>>
       ELSE /\ rmsg' = [rmsg EXCEPT ![connID] = Normalize(connID, nread + 1, f)]
            /\ rpc' = [rpc EXCEPT ![connID] = "enqueue"]
    /\ UNCHANGED <<registry, outbox, wsClosed, messageQueue, stop, accept, wpc,
                   dispatcher, onDisconnectCalls, observed>>

\* ws.ReadJSON returns the error of a frame it cannot decode into a Message:
\* the reader returns like on any other error, and the deferred
\* removeConnection and ws.Close() run
ReadMalformed(connID) ==
    /\ rpc[connID] = "read"
    /\ ~wsClosed[connID]
    /\ ~expired[connID]
    /\ nread' = nread + 1
    /\ removeConnection(connID)
    /\ wsClosed' = [wsClosed EXCEPT ![connID] = TRUE]
    /\ rpc' = [rpc EXCEPT ![connID] = "done"]
    /\ wire' = [wire EXCEPT ![connID] = <<>>]
    /\ UNCHANGED <<outbox, messageQueue, stop, accept, rmsg, wpc, dispatcher, expired>>

\* the send to s.messageQueue: it blocks while the queue is full
Enqueue(connID) ==
    /\ rpc[connID] = "enqueue"
    /\ Len(messageQueue) < QueueCap
    /\ messageQueue' = Append(messageQueue, [conn |-> connID, msg |-> rmsg[connID]])
    /\ rmsg' = [rmsg EXCEPT ![connID] = NoMsg]
    /\ rpc' = [rpc EXCEPT ![connID] = "read"]
    /\ UNCHANGED <<registry, outbox, wsClosed, stop, accept, nread, wpc,
                   dispatcher, onDisconnectCalls, observed>>

\* the peer of a registered session stops responding: no frame and no pong
\* arrives any more, and the read deadline set from PongWait passes
DeadlineExpires(connID) ==
    /\ connID \in connections
    /\ rpc[connID] \in {"read", "enqueue"}
    /\ ~wsClosed[connID]
    /\ ~expired[connID]
    /\ expired' = [expired EXCEPT ![connID] = TRUE]
    /\ UNCHANGED <<registry, outbox, wsClosed, messageQueue, stop, accept, reader, wpc,
                   dispatcher, onDisconnectCalls, wire, underLock, hookSaw>>

\* ws.ReadJSON returns an error (peer close, undecodable frame, read deadline,
\* transport closed): the deferred removeConnection and ws.Close() run
ReadError(connID) ==
    /\ rpc[connID] = "read"
    /\ removeConnection(connID)
    /\ wsClosed' = [wsClosed EXCEPT ![connID] = TRUE]
    /\ rpc' = [rpc EXCEPT ![connID] = "done"]
    /\ wire' = [wire EXCEPT ![connID] = <<>>]
    /\ UNCHANGED <<outbox, messageQueue, stop, accept, rmsg, nread,
                   wpc, dispatcher, expired>>

\* "case <-s.done: return", then the deferred close(conn.outChan).  Nothing
\* receives from the closed channel again: the model forgets what it buffered.
WriterDone(connID) ==
    /\ wpc[connID] = "run"
    /\ done
    /\ wpc' = [wpc EXCEPT ![connID] = "done"]
    /\ outClosed' = [outClosed EXCEPT ![connID] = TRUE]
    /\ outChan' = [outChan EXCEPT ![connID] = <<>>]
    /\ UNCHANGED <<registry, wsClosed, messageQueue, stop, accept, reader,
                   dispatcher, onDisconnectCalls, observed>>

\* a writer that takes the newest message of outChan
WriteMessage_Newest(connID) ==
    /\ wpc[connID] = "run"
    /\ outChan[connID] # <<>>
    /\ ~wsClosed[connID]
    /\ outChan' = [outChan EXCEPT ![connID] = SubSeq(@, 1, Len(@) - 1)]
    /\ wire' = [wire EXCEPT ![connID] = Append(@, outChan[connID][Len(outChan[connID])])]
    /\ UNCHANGED <<registry, outClosed, wsClosed, messageQueue, stop, accept, reader, wpc,
                   dispatcher, onDisconnectCalls, underLock, hookSaw, expired>>

\* "case msg := <-conn.outChan" and a successful ws.WriteJSON
WriteMessage(connID) ==
    /\ wpc[connID] = "run"
    /\ outChan[connID] # <<>>
    /\ ~wsClosed[connID]
    /\ outChan' = [outChan EXCEPT ![connID] = Tail(@)]
    /\ wire' = [wire EXCEPT ![connID] = Append(@, Head(outChan[connID]))]
    /\ UNCHANGED <<registry, outClosed, wsClosed, messageQueue, stop, accept, reader, wpc,
                   dispatcher, onDisconnectCalls, underLock, hookSaw, expired>>

\* a writer that returns on a failed write without the deferred close
WriteError_NoClose(connID) ==
    /\ wpc[connID] = "run"
    /\ wpc' = [wpc EXCEPT ![connID] = "done"]
    /\ UNCHANGED <<registry, outbox, wsClosed, messageQueue, stop, accept, reader, dispatcher,
                   onDisconnectCalls, observed>>

\* a failed write of a ping or of a message received from outChan: return,
\* then the deferred close(conn.outChan)
WriteError(connID) ==
    /\ wpc[connID] = "run"
    /\ outChan' = [outChan EXCEPT ![connID] = <<>>]
    /\ wpc' = [wpc EXCEPT ![connID] = "done"]
    /\ outClosed' = [outClosed EXCEPT ![connID] = TRUE]
    /\ UNCHANGED <<registry, wsClosed, messageQueue, stop, accept, reader, dispatcher,
                   onDisconnectCalls, observed>>

----------------------------------------------------------------------------
(* Stop.                                                                   *)

\* close(s.done)
StopClose ==
    /\ spc = "none"
    /\ done' = TRUE
    /\ spc' = "closing"
    /\ UNCHANGED <<registry, outbox, wsClosed, messageQueue, accept, reader, wpc,
                   dispatcher, onDisconnectCalls, observed>>

\* the critical section that closes every transport of connectionWSMap
StopCloseAll ==
    /\ spc = "closing"
    /\ wsClosed' = [c \in ConnIDs |-> wsClosed[c] \/ c \in connectionWSMap]
    /\ spc' = "stopped"
    /\ UNCHANGED <<registry, outbox, messageQueue, done, accept, reader, wpc, dispatcher,
                   onDisconnectCalls, observed>>

----------------------------------------------------------------------------
(* ProcessMessages, processMessage and the handlers.                       *)

\* the types main registers a handler for
Registered == {"chat", "chat:group", "chat:private", "notification", "alert", "event",
               "system:user_joined", "system:user_left", "system:typing",
               "system:presence", "ack"}

dlocals == <<dconn, dmsg, dusers, dtarget, afterCalls>>

\* "case <-s.done: return"
ProcessDone ==
    /\ dpc = "idle"
    /\ done
    /\ dpc' = "exited"
    /\ UNCHANGED <<registry, outbox, wsClosed, messageQueue, stop, accept, reader, wpc,
                   dconn, dmsg, dout, dpending, dtarget, dnext, dusers, lastSend,
                   afterCalls, onDisconnectCalls, observed>>

\* "case inMsg := <-s.messageQueue": select takes a ready case at random, so
\* a queued message may still be taken after done is closed
ProcessTake ==
    /\ dpc = "idle"
    /\ messageQueue # <<>>
    /\ dconn' = Head(messageQueue).conn
    /\ dmsg' = Head(messageQueue).msg
    /\ messageQueue' = Tail(messageQueue)
    /\ dpc' = "handler"
    /\ UNCHANGED <<registry, outbox, wsClosed, stop, accept, reader, wpc, dout, dpending, dtarget, dnext, dusers, lastSend, afterCalls,
                   onDisconnectCalls, observed>>

\* a sendToUser without the test "conn.UserID == userID"
UserConns_All(userID) == {c \in connections : c \in connectionWSMap}

\* the connections sendToUser writes to, inside its read-locked section
UserConns(userID) == {c \in connections : UserOf(c) = userID /\ c \in connectionWSMap}

\* wire after ws.WriteJSON(msg) on the transports of W; the result of WriteJSON
\* is dropped, and a write to a closed transport leaves nothing on the wire
Written(W, msg) ==
    [c \in ConnIDs |-> IF c \in W /\ ~wsClosed[c] THEN Append(wire[c], msg) ELSE wire[c]]

\* the transports of the user whose own writeMessages goroutine is running:
\* it writes pings and messages to the same *websocket.Conn and shares no
\* lock with sendToUser
Contended(userID) == {c \in UserConns(userID) : wpc[c] = "run" /\ ~wsClosed[c]}

\* the error value sendToUser returns: its only return statement is
\* "return nil", after the loop, whatever the loop found and whatever
\* WriteJSON returned
sendToUserError(userID) == "nil"

\* sendToUser: ws.WriteJSON on every transport of the user, all of it with the
\* read lock held, then return nil.  A write that runs into a write of the
\* connection's writer is a second concurrent writer on a connection that
\* supports one: the connection panics, in a goroutine that does not recover.
sendToUser(userID, msg, next) ==
    /\ underLock' = IF UserConns(userID) = {}
                    THEN underLock
                    ELSE underLock \cup {"WriteJSON"}
    /\ \/ /\ wire' = Written(UserConns(userID), msg)
          /\ dpc' = next
       \/ \E hit \in Contended(userID) : \E W \in SUBSET (UserConns(userID) \ {hit}) :
             /\ wire' = Written(W, msg)
             /\ dpc' = "crashed"
    /\ UNCHANGED <<dout, dpending, dnext, lastSend>>

\* a processMessage that returns on the handler's error
HandlerError_Return ==
    /\ dpc' = "idle"
    /\ UNCHANGED <<dout, dpending, dnext, lastSend, wire, underLock>>

\* a handler returns an error before it sends anything: processMessage logs it
\* and goes on to the after hook
HandlerError ==
    /\ dpc' = "after"
    /\ UNCHANGED <<dout, dpending, dnext, lastSend, wire, underLock>>

\* the error value broadcastToChannel returns: "channel not found" when
\* s.channels has no entry for the channel, else nil whatever the sends did
broadcastToChannelError(channel) ==
    IF channel \notin DOMAIN channels THEN "channel not found" ELSE "nil"

\* broadcastToChannel up to the end of its read-locked section: the error
\* return for an absent channel (which no caller looks at), else the copy of
\* the channel's ids.  opts is not read.
broadcastToChannel(channel, msg, next) ==
    IF broadcastToChannelError(channel) # "nil"
    THEN /\ dpc' = next
         /\ UNCHANGED <<dout, dpending, dnext, lastSend, wire, underLock>>
    ELSE /\ dout' = msg
         /\ dpending' = channels[channel]
         /\ dnext' = next
         /\ dpc' = IF channels[channel] = {} THEN next ELSE "lookup"
         /\ UNCHANGED <<lastSend, wire, underLock>>

\* broadcastAll up to the end of its read-locked section
broadcastAll(msg, next) ==
    /\ dout' = msg
    /\ dpending' = connections
    /\ dnext' = next
    /\ dpc' = IF connections = {} THEN next ELSE "lookup"
    /\ UNCHANGED <<lastSend, wire, underLock>>

\* the sessions a handler's call reaches: the transports sendToUser writes
\* to, or the ids broadcastToChannel copies
Destinations(via, msg) ==
    CASE via = "user" -> UserConns(msg.recipient)
      [] via = "channel" -> IF msg.channel \in DOMAIN channels
                            THEN channels[msg.channel]
                            ELSE {}
      [] OTHER -> {}

\* what a chat handler does with the message: an error return, sendToUser,
\* broadcastToChannel, or nothing
Handle(via) ==
    CASE via = "error" -> HandlerError
      [] via = "user" -> sendToUser(dmsg.recipient, dmsg, "after")
      [] via = "channel" -> broadcastToChannel(dmsg.channel, dmsg, "after")
      [] OTHER -> /\ dpc' = "after"
                  /\ UNCHANGED <<dout, dpending, dnext, lastSend, wire, underLock>>

\* GroupChatHandler: the branch it takes
GroupChatVia(msg) == IF msg.channel = "" THEN "error" ELSE "channel"

\* GroupChatHandler
GroupChatHandler ==
    /\ dpc = "handler"
    /\ dmsg.type = "chat:group"
    /\ Handle(GroupChatVia(dmsg))
    /\ UNCHANGED <<registry, outbox, wsClosed, messageQueue, stop, accept, reader, wpc,
                   dlocals, onDisconnectCalls, hookSaw, expired>>

\* ChatHandler: the branch it takes
ChatVia(msg) ==
    IF msg.payload.isNil THEN "error"
    ELSE IF msg.recipient # "" THEN "user"
    ELSE IF msg.channel # "" THEN "channel"
    ELSE "none"

\* ChatHandler
ChatHandler ==
    /\ dpc = "handler"
    /\ dmsg.type = "chat"
    /\ Handle(ChatVia(dmsg))
    /\ UNCHANGED <<registry, outbox, wsClosed, messageQueue, stop, accept, reader, wpc,
                   dlocals, onDisconnectCalls, hookSaw, expired>>

\* NotificationHandler: an error for a nil payload, else a log line
NotificationHandler ==
    /\ dpc = "handler"
    /\ dmsg.type = "notification"
    /\ Handle(IF dmsg.payload.isNil THEN "error" ELSE "none")
    /\ UNCHANGED <<registry, outbox, wsClosed, messageQueue, stop, accept, reader, wpc,
                   dlocals, onDisconnectCalls, hookSaw, expired>>

\* EventHandler: an error for a nil payload, else a log line
EventHandler ==
    /\ dpc = "handler"
    /\ dmsg.type = "event"
    /\ Handle(IF dmsg.payload.isNil THEN "error" ELSE "none")
    /\ UNCHANGED <<registry, outbox, wsClosed, messageQueue, stop, accept, reader, wpc,
                   dlocals, onDisconnectCalls, hookSaw, expired>>

\* AlertHandler: at most a log line
AlertHandler ==
    /\ dpc = "handler"
    /\ dmsg.type = "alert"
    /\ Handle("none")
    /\ UNCHANGED <<registry, outbox, wsClosed, messageQueue, stop, accept, reader, wpc,
                   dlocals, onDisconnectCalls, hookSaw, expired>>

\* PrivateChatHandler
PrivateChatHandler ==
    /\ dpc = "handler"
    /\ dmsg.type = "chat:private"
    /\ IF dmsg.recipient = ""
       THEN HandlerError
       ELSE sendToUser(dmsg.recipient, dmsg, "after")
    /\ UNCHANGED <<registry, outbox, wsClosed, messageQueue, stop, accept, reader, wpc,
                   dlocals, onDisconnectCalls, hookSaw, expired>>

\* a routeMessage that looks at the channel before the recipient
routeMessage_ChannelFirst ==
    /\ dpc = "handler"
    /\ dmsg.type \notin Registered
    /\ IF dmsg.channel # ""
       THEN broadcastToChannel(dmsg.channel, dmsg, "after")
       ELSE IF dmsg.recipient # ""
            THEN sendToUser(dmsg.recipient, dmsg, "after")
            ELSE broadcastAll(dmsg, "after")
    /\ UNCHANGED <<registry, outbox, wsClosed, messageQueue, stop, accept, reader, wpc,
                   dlocals, onDisconnectCalls, hookSaw, expired>>

\* processMessage's else branch, routeMessage, for a type without handler
routeMessage ==
    /\ dpc = "handler"
    /\ dmsg.type \notin Registered
    /\ IF dmsg.recipient # ""
       THEN sendToUser(dmsg.recipient, dmsg, "after")
       ELSE IF dmsg.channel # ""
            THEN broadcastToChannel(dmsg.channel, dmsg, "after")
            ELSE broadcastAll(dmsg, "after")
    /\ UNCHANGED <<registry, outbox, wsClosed, messageQueue, stop, accept, reader, wpc,
                   dlocals, onDisconnectCalls, hookSaw, expired>>

\* PresenceHandler that subscribes and goes straight to the presence update
PresenceHandler_NoJoinMsg ==
    /\ dpc = "handler"
    /\ dmsg.type = "system:presence"
    /\ IF dmsg.payload.action = "join" /\ dmsg.channel # ""
       THEN /\ SubscribeToChannel(dconn, dmsg.channel)
            /\ dpc' = IF dconn \in connections THEN "presence" ELSE "after"
       ELSE /\ dpc' = "presence"
            /\ UNCHANGED <<channels, connChannels>>
    /\ UNCHANGED <<connections, connectionWSMap, outbox, wsClosed, messageQueue, stop,
                   accept, reader, wpc, dlocals, dout, dpending, dnext, lastSend,
                   onDisconnectCalls, observed>>

\* PresenceHandler up to the end of SubscribeToChannel (an error of which
\* ends the handler), or up to GetActiveUsersInChannel when there is no join
PresenceHandler ==
    /\ dpc = "handler"
    /\ dmsg.type = "system:presence"
    /\ IF dmsg.payload.action = "join" /\ dmsg.channel # ""
       THEN /\ SubscribeToChannel(dconn, dmsg.channel)
            /\ dpc' = IF dconn \in connections THEN "joined" ELSE "after"
       ELSE /\ dpc' = "presence"
            /\ UNCHANGED <<channels, connChannels>>
    /\ UNCHANGED <<connections, connectionWSMap, outbox, wsClosed, messageQueue, stop,
                   accept, reader, wpc, dlocals, dout, dpending, dnext, lastSend,
                   onDisconnectCalls, observed>>

\* PresenceHandler: joinMsg and its broadcastToChannel
PresenceJoined ==
    /\ dpc = "joined"
    /\ broadcastToChannel(dmsg.channel,
            [id |-> <<0, dmsg.id[2]>>, type |-> "system:user_joined", sender |-> "system",
             recipient |-> "", channel |-> dmsg.channel,
             payload |-> [isNil |-> FALSE, action |-> "", user |-> dmsg.sender,
                          users |-> <<>>]],
            "presence")
    /\ UNCHANGED <<registry, outbox, wsClosed, messageQueue, stop, accept, reader, wpc,
                   dlocals, onDisconnectCalls, hookSaw, expired>>

\* PresenceHandler: users := GetActiveUsersInChannel(msg.Channel)
PresenceUsers ==
    /\ dpc = "presence"
    /\ dusers' \in GetActiveUsersInChannel(dmsg.channel)
    /\ dpc' = "presence_bcast"
    /\ UNCHANGED <<registry, outbox, wsClosed, messageQueue, stop, accept, reader, wpc,
                   dconn, dmsg, afterCalls, dout, dpending, dtarget, dnext,
                   lastSend, onDisconnectCalls, observed>>

\* PresenceHandler: presenceMsg and its broadcastToChannel
PresenceBroadcast ==
    /\ dpc = "presence_bcast"
    /\ broadcastToChannel(dmsg.channel,
            [id |-> <<0, dmsg.id[2]>>, type |-> "system:presence", sender |-> "system",
             recipient |-> "", channel |-> dmsg.channel,
             payload |-> [isNil |-> FALSE, action |-> "", user |-> "",
                          users |-> dusers]],
            "after")
    /\ UNCHANGED <<registry, outbox, wsClosed, messageQueue, stop, accept, reader, wpc,
                   dlocals, onDisconnectCalls, hookSaw, expired>>

----------------------------------------------------------------------------
(* The send loop of a broadcast: SendToConnection per copied id.           *)

\* SendToConnection without the deferred recover
SendToConnection_NoRecover(connID, msg) ==
    IF outClosed[connID] THEN "panic"
    ELSE IF Len(outChan[connID]) < OutChanCap THEN "sent"
    ELSE "full"

\* SendToConnection whose select has no default case for a full channel
SendToConnection_NoDefault(connID, msg) ==
    IF outClosed[connID] THEN "recovered"
    ELSE IF Len(outChan[connID]) < OutChanCap THEN "sent"
    ELSE "blocked"

\* SendToConnection after the lookup: the select on conn.outChan.  A send on
\* the closed channel panics and the deferred recover swallows the panic.
SendToConnection(connID, msg) ==
    IF outClosed[connID] THEN "recovered"
    ELSE IF Len(outChan[connID]) < OutChanCap THEN "sent"
    ELSE "full"

\* the error value SendToConnection returns for each outcome.  The function
\* has an unnamed result, so after the deferred recover has swallowed the
\* panic of a send on a closed channel the caller gets the zero value, nil:
\* the same value as after "case conn.outChan <- msg: return nil"
SendToConnectionError(r) ==
    CASE r = "sent" -> "nil"
      [] r = "recovered" -> "nil"
      [] r = "full" -> "outgoing message channel full"
      [] r = "notfound" -> "connection not found"
      [] OTHER -> "none"

AfterSend == IF dpending = {} THEN dnext ELSE "lookup"

\* the loop takes the next id of its copy; SendToConnection looks it up
\* under the read lock and returns "connection not found" when it is gone
SendLookup(connID) ==
    /\ dpc = "lookup"
    /\ connID \in dpending
    /\ dpending' = dpending \ {connID}
    /\ IF connID \in connections
       THEN /\ dtarget' = connID
            /\ dpc' = "send"
            /\ UNCHANGED lastSend
       ELSE /\ lastSend' = "notfound"
            /\ dpc' = IF dpending' = {} THEN dnext ELSE "lookup"
            /\ UNCHANGED dtarget
    /\ UNCHANGED <<registry, outbox, wsClosed, messageQueue, stop, accept, reader, wpc,
                   dconn, dmsg, dout, dnext, dusers, afterCalls, onDisconnectCalls, observed>>

\* the select of SendToConnection; its result is dropped by the loop.  A
\* send that blocks waits here; a panic that leaves SendToConnection ends
\* the goroutine.
SendSelect ==
    /\ dpc = "send"
    /\ LET r == SendToConnection(dtarget, dout)
       IN  /\ r # "blocked"
           /\ lastSend' = r
           /\ outChan' = IF r = "sent"
                         THEN [outChan EXCEPT ![dtarget] = Append(@, dout)]
                         ELSE outChan
           /\ dpc' = IF r = "panic" THEN "crashed" ELSE AfterSend
    /\ dtarget' = 0
    /\ UNCHANGED <<registry, outClosed, wsClosed, messageQueue, stop, accept, reader, wpc,
                   dconn, dmsg, dout, dpending, dnext, dusers, afterCalls,
                   onDisconnectCalls, observed>>

\* processMessage: the after hook, then back to the select of ProcessMessages
AfterHook ==
    /\ dpc = "after"
    /\ afterCalls' = afterCalls + 1
    /\ dpc' = "idle"
    /\ dconn' = 0
    /\ dmsg' = NoMsg
    /\ dout' = NoMsg
    /\ dpending' = {}
    /\ dnext' = "after"
    /\ dusers' = <<>>
    /\ lastSend' = "none"
    /\ UNCHANGED <<registry, outbox, wsClosed, messageQueue, stop, accept, reader, wpc,
                   dtarget, onDisconnectCalls, observed>>

----------------------------------------------------------------------------
Next ==
    \/ HandleConnectionRefuse
    \/ \E c \in ConnIDs : HandleConnectionCheck(c)
    \/ \E c \in ConnIDs : HandleConnectionInsert(c)
    \/ \E c \in ConnIDs : HandleConnectionStart(c)
    \/ \E c \in ConnIDs : HandleConnectionHookError(c)
    \/ \E c \in ConnIDs, ch \in Channels : Subscribe(c, ch)
    \/ \E c \in ConnIDs, ch \in Channels : Unsubscribe(c, ch)
    \/ \E c \in ConnIDs, f \in ClientFrames : nread < MaxMsgs /\ ReadFrame(c, f)
    \/ \E c \in ConnIDs : Enqueue(c)
    \/ \E c \in ConnIDs : ReadError(c)
    \/ \E c \in ConnIDs : WriterDone(c)
    \/ \E c \in ConnIDs : WriteMessage(c)
    \/ \E c \in ConnIDs : WriteError(c)
    \/ StopClose
    \/ StopCloseAll
    \/ ProcessDone
    \/ ProcessTake
    \/ GroupChatHandler
    \/ ChatHandler
    \/ PrivateChatHandler
    \/ NotificationHandler
    \/ EventHandler
    \/ AlertHandler
    \/ routeMessage
    \/ PresenceHandler
    \/ PresenceJoined
    \/ PresenceUsers
    \/ PresenceBroadcast
    \/ \E c \in ConnIDs : SendLookup(c)
    \/ SendSelect
    \/ AfterHook

Spec == Init /\ [][Next]_vars

----------------------------------------------------------------------------
(* Connection lifecycle and registry alone: the accepts, the hooks, the    *)
(* exported subscribe calls, the ends of both goroutines and Stop, while   *)
(* no client sends a frame.                                                *)

LifeNext ==
    \/ HandleConnectionRefuse
    \/ \E c \in ConnIDs : HandleConnectionCheck(c)
    \/ \E c \in ConnIDs : HandleConnectionInsert(c)
    \/ \E c \in ConnIDs : HandleConnectionStart(c)
    \/ \E c \in ConnIDs : HandleConnectionHookError(c)
    \/ \E c \in ConnIDs, ch \in Channels : Subscribe(c, ch)
    \/ \E c \in ConnIDs, ch \in Channels : Unsubscribe(c, ch)
    \/ \E c \in ConnIDs : ReadError(c)
    \/ \E c \in ConnIDs : WriterDone(c)
    \/ \E c \in ConnIDs : WriteError(c)
    \/ StopClose
    \/ StopCloseAll
    \/ ProcessDone

LifeSpec == Init /\ [][LifeNext]_vars

----------------------------------------------------------------------------
(* The running hub: two sessions have been accepted one after the other    *)
(* and have joined some channels; from there on clients send frames, drop  *)
(* off, and Stop may be called.                                            *)

HubConns == {1, 2}

HubInit ==
    /\ connections = HubConns
    /\ connectionWSMap = HubConns
    /\ \E mem \in [Channels -> SUBSET HubConns] :
          /\ channels = [ch \in {x \in Channels : mem[x] # {}} |-> mem[ch]]
          /\ connChannels = [c \in ConnIDs |-> {ch \in Channels : c \in mem[ch]}]
    /\ outChan = [c \in ConnIDs |-> <<>>]
    /\ outClosed = [c \in ConnIDs |-> FALSE]
    /\ wsClosed = [c \in ConnIDs |-> FALSE]
    /\ messageQueue = <<>>
    /\ done = FALSE
    /\ hpc = [c \in ConnIDs |-> IF c \in HubConns THEN "started" ELSE "free"]
    /\ rpc = [c \in ConnIDs |-> IF c \in HubConns THEN "read" ELSE "none"]
    /\ rmsg = [c \in ConnIDs |-> NoMsg]
    /\ wpc = [c \in ConnIDs |-> IF c \in HubConns THEN "run" ELSE "none"]
    /\ dpc = "idle"
    /\ dconn = 0
    /\ dmsg = NoMsg
    /\ dout = NoMsg
    /\ dpending = {}
    /\ dtarget = 0
    /\ dnext = "after"
    /\ dusers = <<>>
    /\ lastSend = "none"
    /\ spc = "none"
    /\ onConnectCalls = [c \in ConnIDs |-> IF c \in HubConns THEN 1 ELSE 0]
    /\ onDisconnectCalls = [c \in ConnIDs |-> 0]
    /\ afterCalls = 0
    /\ refusals = 0
    /\ nread = 0
    /\ wire = [c \in ConnIDs |-> <<>>]
    /\ underLock = {}
    /\ hookSaw = [c \in ConnIDs |-> "none"]
    /\ expired = [c \in ConnIDs |-> FALSE]

HubNext ==
    \/ \E c \in ConnIDs, f \in ClientFrames : nread < MaxMsgs /\ ReadFrame(c, f)
    \/ \E c \in ConnIDs : Enqueue(c)
    \/ \E c \in ConnIDs : ReadError(c)
    \/ \E c \in ConnIDs : WriterDone(c)
    \/ \E c \in ConnIDs : WriteMessage(c)
    \/ \E c \in ConnIDs : WriteError(c)
    \/ StopClose
    \/ StopCloseAll
    \/ ProcessDone
    \/ ProcessTake
    \/ GroupChatHandler
    \/ ChatHandler
    \/ routeMessage
    \/ PresenceHandler
    \/ PresenceJoined
    \/ PresenceUsers
    \/ PresenceBroadcast
    \/ \E c \in ConnIDs : SendLookup(c)
    \/ SendSelect
    \/ AfterHook

HubSpec == HubInit /\ [][HubNext]_vars

----------------------------------------------------------------------------
(* Sequential accepts: a HandleConnection call starts only after the       *)
(* previous one has returned.                                              *)

NoAcceptInFlight == \A c \in ConnIDs : hpc[c] \notin {"checked", "inserted"}

SeqNext ==
    \/ NoAcceptInFlight /\ HandleConnectionRefuse
    \/ \E c \in ConnIDs : NoAcceptInFlight /\ HandleConnectionCheck(c)
    \/ \E c \in ConnIDs : HandleConnectionInsert(c)
    \/ \E c \in ConnIDs : HandleConnectionStart(c)
    \/ \E c \in ConnIDs : HandleConnectionHookError(c)
    \/ \E c \in ConnIDs, ch \in Channels : Subscribe(c, ch)
    \/ \E c \in ConnIDs, ch \in Channels : Unsubscribe(c, ch)
    \/ \E c \in ConnIDs : ReadError(c)
    \/ \E c \in ConnIDs : WriterDone(c)
    \/ \E c \in ConnIDs : WriteError(c)
    \/ StopClose
    \/ StopCloseAll
    \/ ProcessDone

SeqSpec == Init /\ [][SeqNext]_vars

----------------------------------------------------------------------------
(* Shutdown of the running hub under the scheduling the Go runtime gives:  *)
(* a goroutine that can take a step takes it, a select with a closed done  *)
(* among its ready cases picks it in the end, a read on a transport that   *)
(* is closed, or that no writer pings any more, fails.  The clients send   *)
(* broadcast events, as many as fill the work queue and one more.          *)

BroadcastEvent == Frame("event:custom", "", "", "")

ShutdownNext ==
    \/ \E c \in ConnIDs : nread < QueueCap + 1 /\ ReadFrame(c, BroadcastEvent)
    \/ \E c \in ConnIDs : Enqueue(c)
    \/ \E c \in ConnIDs : ReadError(c)
    \/ \E c \in ConnIDs : WriterDone(c)
    \/ \E c \in ConnIDs : WriteMessage(c)
    \/ \E c \in ConnIDs : WriteError(c)
    \/ StopClose
    \/ StopCloseAll
    \/ ProcessDone
    \/ ProcessTake
    \/ routeMessage
    \/ \E c \in ConnIDs : SendLookup(c)
    \/ SendSelect
    \/ AfterHook

ShutdownFairness ==
    /\ WF_vars(StopCloseAll)
    /\ WF_vars(ProcessDone)
    /\ WF_vars(ProcessTake)
    /\ WF_vars(routeMessage)
    /\ WF_vars(\E c \in ConnIDs : SendLookup(c))
    /\ WF_vars(SendSelect)
    /\ WF_vars(AfterHook)
    /\ \A c \in ConnIDs :
          /\ WF_vars(Enqueue(c))
          /\ WF_vars(WriterDone(c))
          /\ WF_vars((wsClosed[c] \/ wpc[c] = "done") /\ ReadError(c))

ShutdownSpec == HubInit /\ [][ShutdownNext]_vars /\ ShutdownFairness

----------------------------------------------------------------------------
(* Channel joins on the running hub: two sessions have been accepted and   *)
(* no channel exists yet; the clients send system:presence joins and may   *)
(* drop off.  A writer that can write does so in the end (its select takes *)
(* a ready case at random), and a write on a closed transport fails.       *)

\* number of joins the readers decode in one behaviour
MaxJoins == 2

JoinFrames == {Frame("system:presence", "", c, "join") : c \in Channels}

PresenceInit == HubInit /\ DOMAIN channels = {}

PresenceNext ==
    \/ \E c \in ConnIDs, f \in JoinFrames : nread < MaxJoins /\ ReadFrame(c, f)
    \/ \E c \in ConnIDs : Enqueue(c)
    \/ \E c \in ConnIDs : ReadError(c)
    \/ \E c \in ConnIDs : WriteMessage(c)
    \/ \E c \in ConnIDs : WriteError(c)
    \/ ProcessTake
    \/ PresenceHandler
    \/ PresenceJoined
    \/ PresenceUsers
    \/ PresenceBroadcast
    \/ \E c \in ConnIDs : SendLookup(c)
    \/ SendSelect
    \/ AfterHook

PresenceFairness ==
    \A c \in ConnIDs :
        /\ WF_vars(WriteMessage(c))
        /\ WF_vars(wsClosed[c] /\ WriteError(c))

PresenceSpec == PresenceInit /\ [][PresenceNext]_vars /\ PresenceFairness

----------------------------------------------------------------------------
(* Private messages on the running hub: the clients of the two accepted    *)
(* sessions send chat:private frames, sessions drop off and further        *)
(* sessions are accepted, so that a user may hold two sessions.            *)

PrivateFrames == {Frame("chat:private", r, "", "") : r \in {"", "alice", "bob"}}

PrivateNext ==
    \/ HandleConnectionRefuse
    \/ \E c \in ConnIDs : HandleConnectionCheck(c)
    \/ \E c \in ConnIDs : HandleConnectionInsert(c)
    \/ \E c \in ConnIDs : HandleConnectionStart(c)
    \/ \E c \in ConnIDs, f \in PrivateFrames : nread < MaxMsgs /\ ReadFrame(c, f)
    \/ \E c \in ConnIDs : Enqueue(c)
    \/ \E c \in ConnIDs : ReadError(c)
    \/ \E c \in ConnIDs : WriteError(c)
    \/ ProcessTake
    \/ PrivateChatHandler
    \/ AfterHook

PrivateSpec == HubInit /\ [][PrivateNext]_vars

----------------------------------------------------------------------------
(* Joins whose sender field the client has filled in: readMessages keeps a *)
(* sender that is not empty, whatever user the session belongs to.         *)

\* a user id that no session of the server belongs to
Impostor == "mallory"

SenderFrames == JoinFrames \cup {FrameFrom(Impostor, f) : f \in JoinFrames}

SenderNext ==
    \/ \E c \in ConnIDs, f \in SenderFrames : nread < MaxMsgs /\ ReadFrame(c, f)
    \/ \E c \in ConnIDs : Enqueue(c)
    \/ \E c \in ConnIDs : ReadError(c)
    \/ \E c \in ConnIDs : WriteMessage(c)
    \/ ProcessTake
    \/ PresenceHandler
    \/ PresenceJoined
    \/ PresenceUsers
    \/ PresenceBroadcast
    \/ \E c \in ConnIDs : SendLookup(c)
    \/ SendSelect
    \/ AfterHook

SenderSpec == PresenceInit /\ [][SenderNext]_vars

----------------------------------------------------------------------------
(* Keepalive expiry on the running hub: the hub of ShutdownSpec, in which  *)
(* a client may also fall silent.  A ReadJSON whose deadline has passed    *)
(* returns its error.                                                      *)

TimeoutNext ==
    \/ ShutdownNext
    \/ \E c \in ConnIDs : DeadlineExpires(c)

TimeoutFairness ==
    /\ ShutdownFairness
    /\ \A c \in ConnIDs : WF_vars(expired[c] /\ ReadError(c))

TimeoutSpec == HubInit /\ [][TimeoutNext]_vars /\ TimeoutFairness

----------------------------------------------------------------------------
(* Goroutine exits on the running hub: readers end by read error, peer     *)
(* close, deadline or Stop; writers end by Stop or by a failed write.  The *)
(* writer's ticker fires every PingInterval, so a writer whose transport   *)
(* is closed gets to a ping write, which fails.                            *)

ExitNext ==
    \/ \E c \in ConnIDs : nread < MaxMsgs /\ ReadFrame(c, BroadcastEvent)
    \/ \E c \in ConnIDs : Enqueue(c)
    \/ \E c \in ConnIDs : DeadlineExpires(c)
    \/ \E c \in ConnIDs : ReadError(c)
    \/ \E c \in ConnIDs : WriterDone(c)
    \/ \E c \in ConnIDs : WriteMessage(c)
    \/ \E c \in ConnIDs : WriteError(c)
    \/ StopClose
    \/ StopCloseAll
    \/ ProcessDone
    \/ ProcessTake
    \/ routeMessage
    \/ \E c \in ConnIDs : SendLookup(c)
    \/ SendSelect
    \/ AfterHook

ExitFairness ==
    \A c \in ConnIDs :
        /\ WF_vars(WriterDone(c))
        /\ WF_vars(wsClosed[c] /\ WriteError(c))

ExitSpec == HubInit /\ [][ExitNext]_vars /\ ExitFairness

----------------------------------------------------------------------------
(* The readers of the running hub: besides well-formed frames the clients  *)
(* send frames without a type, which the before hook refuses, and frames   *)
(* that do not decode.                                                     *)

BroadcastFrames == {Frame("", "", "", ""), Frame("event:custom", "", "", "")}

ReaderNext ==
    \/ \E c \in ConnIDs, f \in BroadcastFrames : nread < MaxMsgs + 1 /\ ReadFrame(c, f)
    \/ \E c \in ConnIDs : nread < MaxMsgs + 1 /\ ReadMalformed(c)
    \/ \E c \in ConnIDs : Enqueue(c)
    \/ \E c \in ConnIDs : ReadError(c)
    \/ \E c \in ConnIDs : WriteMessage(c)
    \/ ProcessTake
    \/ routeMessage
    \/ \E c \in ConnIDs : SendLookup(c)
    \/ SendSelect
    \/ AfterHook

ReaderSpec == HubInit /\ [][ReaderNext]_vars

----------------------------------------------------------------------------
(* Write errors on the running hub: a writer may fail on a ping or on a    *)
(* message while the reader of the session goes on.  A client may fall     *)
(* silent, and then the read deadline passes; a client that keeps sending  *)
(* pongs keeps the deadline ahead.                                         *)

WriterNext ==
    \/ \E c \in ConnIDs : WriteError(c)
    \/ \E c \in ConnIDs : WriteMessage(c)
    \/ \E c \in ConnIDs : DeadlineExpires(c)
    \/ \E c \in ConnIDs : nread < MaxMsgs /\ ReadFrame(c, BroadcastEvent)
    \/ \E c \in ConnIDs : Enqueue(c)
    \/ \E c \in ConnIDs : ReadError(c)
    \/ ProcessTake
    \/ routeMessage
    \/ \E c \in ConnIDs : SendLookup(c)
    \/ SendSelect
    \/ AfterHook

WriterFairness ==
    /\ WF_vars(ProcessTake)
    /\ WF_vars(routeMessage)
    /\ WF_vars(\E c \in ConnIDs : SendLookup(c))
    /\ WF_vars(SendSelect)
    /\ WF_vars(AfterHook)
    /\ \A c \in ConnIDs :
          /\ WF_vars(Enqueue(c))
          /\ WF_vars(WriteMessage(c))
          /\ WF_vars((wsClosed[c] \/ expired[c]) /\ ReadError(c))

WriterSpec == HubInit /\ [][WriterNext]_vars /\ WriterFairness

----------------------------------------------------------------------------
(* Handler errors on the running hub: the clients send the frames for      *)
(* which the registered handler returns an error.                          *)

ErrorFrames ==
    {Frame("chat:group", r, "", "") : r \in {"", "bob"}}
    \cup {Frame("chat:private", "", c, "") : c \in {""} \cup Channels}
    \cup {WithoutPayload(Frame(t, "bob", c, "")) :
              t \in {"chat", "notification", "event"}, c \in Channels}

ErrorNext ==
    \/ \E c \in ConnIDs, f \in ErrorFrames : nread < MaxMsgs + 1 /\ ReadFrame(c, f)
    \/ \E c \in ConnIDs : Enqueue(c)
    \/ \E c \in ConnIDs : ReadError(c)
    \/ ProcessTake
    \/ GroupChatHandler
    \/ ChatHandler
    \/ PrivateChatHandler
    \/ NotificationHandler
    \/ EventHandler
    \/ AfterHook

ErrorSpec == HubInit /\ [][ErrorNext]_vars

----------------------------------------------------------------------------
(* Routing on the running hub: the clients send frames of the types that   *)
(* have no handler (event:custom, message:delete) and of the types whose   *)
(* handlers only log, with and without recipient and channel.              *)

RouteFrames ==
    {Frame(t, r, c, "") :
        t \in {"event:custom", "message:delete", "notification", "alert", "event"},
        r \in {"", "bob"}, c \in {""} \cup Channels}

RouteNext ==
    \/ \E c \in ConnIDs, f \in RouteFrames : nread < MaxMsgs /\ ReadFrame(c, f)
    \/ \E c \in ConnIDs : Enqueue(c)
    \/ \E c \in ConnIDs : ReadError(c)
    \/ \E c \in ConnIDs : WriteMessage(c)
    \/ ProcessTake
    \/ routeMessage
    \/ NotificationHandler
    \/ EventHandler
    \/ AlertHandler
    \/ \E c \in ConnIDs : SendLookup(c)
    \/ SendSelect
    \/ AfterHook

RouteSpec == HubInit /\ [][RouteNext]_vars

----------------------------------------------------------------------------
(* Order on the running hub: each client sends up to two frames of a type  *)
(* without handler, to everyone or to the user bob, and the sessions stay. *)

OrderFrames == {Frame("event:custom", r, "", "") : r \in {"", "bob"}}

OrderNext ==
    \/ \E c \in ConnIDs, f \in OrderFrames : nread < MaxMsgs + 1 /\ ReadFrame(c, f)
    \/ \E c \in ConnIDs : Enqueue(c)
    \/ \E c \in ConnIDs : WriteMessage(c)
    \/ ProcessTake
    \/ routeMessage
    \/ \E c \in ConnIDs : SendLookup(c)
    \/ SendSelect
    \/ AfterHook

OrderSpec == HubInit /\ [][OrderNext]_vars

----------------------------------------------------------------------------
(* Sending to a user on the running hub: the clients send frames with a    *)
(* recipient, of type chat:private and of a type without handler, and      *)
(* sessions drop off, so that a recipient may have no session left.        *)

TargetFrames ==
    {Frame(t, r, "", "") : t \in {"chat:private", "event:custom"}, r \in {"alice", "bob"}}

TargetNext ==
    \/ \E c \in ConnIDs, f \in TargetFrames : nread < MaxMsgs /\ ReadFrame(c, f)
    \/ \E c \in ConnIDs : Enqueue(c)
    \/ \E c \in ConnIDs : ReadError(c)
    \/ \E c \in ConnIDs : WriteError(c)
    \/ ProcessTake
    \/ PrivateChatHandler
    \/ routeMessage
    \/ AfterHook

TargetSpec == HubInit /\ [][TargetNext]_vars

----------------------------------------------------------------------------
(* The dispatcher on the running hub with no shutdown: the clients send    *)
(* one frame more than the work queue holds, to everyone or to the user    *)
(* bob; the sessions stay.  The dispatcher goroutine, the readers' sends   *)
(* to the queue and the writers are scheduled fairly.                      *)

DispatchNext ==
    \/ \E c \in ConnIDs, f \in OrderFrames : nread < QueueCap + 1 /\ ReadFrame(c, f)
    \/ \E c \in ConnIDs : Enqueue(c)
    \/ \E c \in ConnIDs : WriteMessage(c)
    \/ ProcessTake
    \/ routeMessage
    \/ \E c \in ConnIDs : SendLookup(c)
    \/ SendSelect
    \/ AfterHook

DispatchFairness ==
    /\ WF_vars(ProcessTake)
    /\ WF_vars(routeMessage)
    /\ WF_vars(\E c \in ConnIDs : SendLookup(c))
    /\ WF_vars(SendSelect)
    /\ WF_vars(AfterHook)
    /\ \A c \in ConnIDs :
          /\ WF_vars(Enqueue(c))
          /\ WF_vars(WriteMessage(c))

DispatchSpec == HubInit /\ [][DispatchNext]_vars /\ DispatchFairness

----------------------------------------------------------------------------
(* Chat on the running hub: the clients send chat and chat:group frames    *)
(* with every combination of recipient, channel and payload.               *)

ChatFrames ==
    LET withPayload == {Frame(t, r, c, "") :
                            t \in {"chat", "chat:group"},
                            r \in {"", "bob"}, c \in {""} \cup Channels}
    IN  withPayload \cup {WithoutPayload(f) : f \in withPayload}

ChatNext ==
    \/ \E c \in ConnIDs, f \in ChatFrames : nread < MaxMsgs /\ ReadFrame(c, f)
    \/ \E c \in ConnIDs : Enqueue(c)
    \/ \E c \in ConnIDs : ReadError(c)
    \/ \E c \in ConnIDs : WriteMessage(c)
    \/ ProcessTake
    \/ ChatHandler
    \/ GroupChatHandler
    \/ \E c \in ConnIDs : SendLookup(c)
    \/ SendSelect
    \/ AfterHook

ChatSpec == HubInit /\ [][ChatNext]_vars

----------------------------------------------------------------------------
(* Properties.                                                             *)

EverRegistered(c) == hpc[c] \in {"inserted", "started", "failed"}

\* C1: for every registered session and every channel, the session's id is
\* in the registry's set of the channel exactly when the channel is in the
\* session's own Channels.
C1_BiMap ==
    \A c \in connections, ch \in Channels :
        (ch \in DOMAIN channels /\ c \in channels[ch]) <=> ch \in connChannels[c]

\* a subscribed session and an unsubscribed one are registered after a third
\* has been removed
C1_Witness ==
    /\ \E c \in connections : connChannels[c] # {}
    /\ \E c \in connections : connChannels[c] = {}
    /\ \E c \in ConnIDs : onDisconnectCalls[c] > 0

\* C2: no chat or chat:group envelope is ever on the outbox of the session
\* that sent it.
C2_NoSelfEcho ==
    \A c \in ConnIDs : \A i \in 1 .. Len(outChan[c]) :
        outChan[c][i].type \in {"chat", "chat:group"} => outChan[c][i].id[1] # c

\* C3: the disconnect hook has run once for every session that was registered
\* and has left the registry (its reader returned, or its connect hook
\* failed), and not at all for any other session; it never runs twice.
C3_DisconnectOnce ==
    \A c \in ConnIDs :
        /\ onDisconnectCalls[c] <= 1
        /\ onDisconnectCalls[c] = 1 <=> (EverRegistered(c) /\ c \notin connections)
        /\ (rpc[c] = "done" \/ hpc[c] = "failed") => onDisconnectCalls[c] = 1

\* a session whose writer left on done and whose reader left after Stop closed
\* its transport, next to one whose connect hook failed
C3_Witness ==
    /\ spc = "stopped"
    /\ \E c \in ConnIDs : rpc[c] = "done" /\ wpc[c] = "done" /\ onDisconnectCalls[c] = 1
    /\ \E c \in ConnIDs : hpc[c] = "failed" /\ onDisconnectCalls[c] = 1

\* C4: the number of registered sessions never exceeds max_connections.
C4_Ceiling == Cardinality(connections) <= MaxConnections

\* C5: with sequential accepts, an accept is refused exactly when
\* max_connections sessions are registered, an accept made below the ceiling
\* is admitted, and the registry never holds more than max_connections.
C5_SequentialAdmission ==
    /\ [](Cardinality(connections) <= MaxConnections)
    /\ [][/\ refusals' # refusals => Cardinality(connections) = MaxConnections
          /\ \A c \in ConnIDs :
                (hpc[c] = "free" /\ hpc'[c] # "free")
                    => Cardinality(connections) < MaxConnections
          /\ \A c \in ConnIDs :
                (hpc[c] = "checked" /\ hpc'[c] # "checked") => c \in connections'
          /\ (NoAcceptInFlight /\ \E c \in ConnIDs : hpc[c] = "free")
                => IF Cardinality(connections) = MaxConnections
                   THEN \A c \in ConnIDs : ~ENABLED HandleConnectionCheck(c)
                   ELSE /\ ~ENABLED HandleConnectionRefuse
                        /\ \E c \in ConnIDs : ENABLED HandleConnectionCheck(c)]_vars

\* the ceiling was reached, an accept refused, a session removed, the next
\* accept admitted and the one after it refused
C5_Witness ==
    /\ refusals = 2
    /\ Cardinality(connections) = MaxConnections
    /\ \E c \in ConnIDs : rpc[c] = "done"
    /\ hpc[MaxConnections + 1] = "started"

\* C6: a refused accept calls no hook, starts no goroutine and leaves the
\* sessions, the transport map and every channel set as they were.
C6_RefusalFrame ==
    [][refusals' # refusals =>
          UNCHANGED <<connections, connectionWSMap, channels, connChannels,
                      onConnectCalls, onDisconnectCalls, hpc, rpc, wpc>>]_vars

\* an accept has been refused at the ceiling
C6_Witness == refusals > 0 /\ Cardinality(connections) >= MaxConnections

\* C7: once done is closed no session is added to the registry.
C7_NoAcceptAfterStop == [][done => connections' \subseteq connections]_vars

\* the step of SendSelect: the select of SendToConnection on dtarget
SelectStep == dpc = "send" /\ dtarget' # dtarget

\* C9: an outbox never holds more than its capacity, the select of an enqueue
\* can always be taken, and an enqueue on a full, open outbox leaves every
\* outbox as it was and reports the drop.
C9_BoundedNonBlocking ==
    /\ [](\A c \in ConnIDs : Len(outChan[c]) <= OutChanCap)
    /\ [](dpc = "send" => ENABLED SendSelect)
    /\ [][(SelectStep /\ ~outClosed[dtarget] /\ Len(outChan[dtarget]) = OutChanCap)
              => (outChan' = outChan /\ lastSend' = "full")]_vars

\* an enqueue has just been dropped on an outbox that holds OutChanCap
\* envelopes
C9_Witness ==
    /\ lastSend = "full"
    /\ \E c \in connections : ~outClosed[c] /\ Len(outChan[c]) = OutChanCap

Returned(c) == rpc[c] \in {"none", "done"} /\ wpc[c] \in {"none", "done"}

\* C8: after Stop has closed done, every reader and every writer returns and
\* every session leaves the registry.
C8_ShutdownCompletes ==
    done ~> (connections = {} /\ \A c \in ConnIDs : Returned(c))

\* what does hold after Stop: every writer returns, and every reader returns
\* except one that waits in its send to the full work queue after
\* ProcessMessages has returned
ShutdownButBlockedReaders ==
    done ~> \A c \in ConnIDs :
               \/ c \notin connections /\ Returned(c)
               \/ /\ wpc[c] = "done"
                  /\ rpc[c] = "enqueue"
                  /\ Len(messageQueue) = QueueCap
                  /\ dpc = "exited"

\* C11: a message enters an outbox at its tail, and the writer puts the head
\* of the outbox on the transport and leaves the rest in order, so the
\* messages of an outbox reach the transport in the order they were accepted;
\* and in the end every outbox whose writer has not returned is empty, so
\* every accepted message has been written unless the writer returned.
C11_OutboxFIFO ==
    /\ [][\A c \in ConnIDs :
            /\ Len(outChan'[c]) > Len(outChan[c]) =>
                    SubSeq(outChan'[c], 1, Len(outChan[c])) = outChan[c]
            /\ (Len(outChan'[c]) < Len(outChan[c]) /\ ~outClosed'[c]) =>
                    /\ outChan'[c] = Tail(outChan[c])
                    /\ wire'[c] = Append(wire[c], Head(outChan[c]))]_vars
    /\ <>[](\A c \in ConnIDs : outChan[c] = <<>> \/ wpc[c] = "done")

\* a session's transport carries the two messages of a join in the order its
\* outbox took them, while the outbox is full again
C11_Witness ==
    \E c \in connections :
        /\ Len(wire[c]) >= 2
        /\ wire[c][1].type = "system:user_joined"
        /\ wire[c][2].type = "system:presence"
        /\ wire[c][1].id = wire[c][2].id
        /\ Len(outChan[c]) = OutChanCap

\* C12: nothing is called while s.mu is held: no hook, no handler, no send to
\* an outbox and no write to a transport.
C12_NothingUnderLock == underLock = {}

\* the step of PrivateChatHandler for a message with a recipient
PrivateStep == dpc = "handler" /\ dpc' # dpc /\ dmsg.type = "chat:private" /\ dmsg.recipient # ""

\* C13: the handler of a chat:private message with recipient u writes the
\* message to the transport of every session registered for u and to no other
\* transport, and goes on to the after hook.
C13_PrivateFanout ==
    [][PrivateStep =>
          /\ dpc' = "after"
          /\ wire' = [c \in ConnIDs |->
                         IF c \in connections /\ UserOf(c) = dmsg.recipient
                         THEN Append(wire[c], dmsg)
                         ELSE wire[c]]]_vars

\* what does hold: unless the write runs into one of the writer, the message
\* goes to the sessions of the recipient and to no other
PrivateFanoutUnlessCollision ==
    [][(PrivateStep /\ dpc' # "crashed") =>
          /\ dpc' = "after"
          /\ wire' = [c \in ConnIDs |->
                         IF c \in connections /\ UserOf(c) = dmsg.recipient
                         THEN Append(wire[c], dmsg)
                         ELSE wire[c]]]_vars

\* C14: no chat:private message is ever on the transport of the session that
\* sent it.
C14_NoPrivateEcho ==
    \A c \in ConnIDs : \A i \in 1 .. Len(wire[c]) :
        wire[c][i].type = "chat:private" => wire[c][i].id[1] # c

\* what a session has been sent through its outbox: written or still waiting
Stream(c) == wire[c] \o outChan[c]

\* the places of the message with this id and type in the sequence q
Places(q, id, t) == {i \in 1 .. Len(q) : q[i].id = id /\ q[i].type = t}

\* the dispatcher is in the handler of a join sent by a registered session
JoinOf(c) ==
    /\ dmsg.type = "system:presence"
    /\ dmsg.payload.action = "join"
    /\ dmsg.channel # ""
    /\ dconn = c

\* C15: the handler of a join from a registered session subscribes the
\* session, then starts one fan-out of system:user_joined over the members of
\* the channel, and after it one fan-out of system:presence over the members,
\* and then returns; no session is sent either message of a join twice, and a
\* session that is sent both is sent user_joined first.
C15_JoinFanouts ==
    /\ [][/\ (dpc = "handler" /\ dpc' # dpc /\ \E c \in connections : JoinOf(c)) =>
                /\ dpc' = "joined"
                /\ dmsg.channel \in connChannels'[dconn]
                /\ dconn \in channels'[dmsg.channel]
          /\ (dpc = "joined" /\ dpc' # dpc /\ dmsg.channel \in DOMAIN channels) =>
                /\ dout'.type = "system:user_joined"
                /\ dout'.channel = dmsg.channel
                /\ dpending' = channels[dmsg.channel]
                /\ dnext' = "presence"
          /\ (dpc = "presence_bcast" /\ dpc' # dpc /\ dmsg.channel \in DOMAIN channels) =>
                /\ dout'.type = "system:presence"
                /\ dout'.channel = dmsg.channel
                /\ dpending' = channels[dmsg.channel]
                /\ dnext' = "after"
          /\ (dpc' = "joined" /\ dpc # "joined") => dpc = "handler"
          /\ (dpc' = "presence" /\ dpc # "presence") =>
                (dpc = "joined" \/ (dpc \in {"lookup", "send"} /\ dnext = "presence"))
          /\ (dpc' = "presence_bcast" /\ dpc # "presence_bcast") => dpc = "presence"
          /\ (dpc' = "after" /\ dpc # "after" /\ \E c \in ConnIDs : JoinOf(c)) =>
                \/ dpc = "handler" /\ dconn \notin connections
                \/ dpc = "presence_bcast"
                \/ dpc \in {"lookup", "send"} /\ dnext = "after"]_vars
    /\ [](\A c \in ConnIDs : \A k \in 1 .. MaxJoins :
            /\ Cardinality(Places(Stream(c), <<0, k>>, "system:user_joined")) <= 1
            /\ Cardinality(Places(Stream(c), <<0, k>>, "system:presence")) <= 1
            /\ \A i \in Places(Stream(c), <<0, k>>, "system:user_joined") :
                  \A j \in Places(Stream(c), <<0, k>>, "system:presence") : i < j)

\* the joiner and the session that was in the channel before it have both been
\* sent the user_joined and then the presence message of one join
C15_Witness ==
    \E k \in 1 .. MaxJoins :
        \A c \in HubConns :
            /\ c \in connections
            /\ Places(Stream(c), <<0, k>>, "system:user_joined") # {}
            /\ Places(Stream(c), <<0, k>>, "system:presence") # {}

\* the users with at least one registered session subscribed to the channel
SubscribedUsers(ch) == {UserOf(c) : c \in {x \in connections : ch \in connChannels[x]}}

\* C16: in every topology, every list GetActiveUsersInChannel may return for a
\* channel holds exactly the users with a registered session subscribed to the
\* channel, each of them once.
C16_ActiveUsers ==
    \A ch \in Channels : \A users \in GetActiveUsersInChannel(ch) :
        /\ {users[i] : i \in 1 .. Len(users)} = SubscribedUsers(ch)
        /\ \A i, j \in 1 .. Len(users) : users[i] = users[j] => i = j

\* two sessions of one user are subscribed to a channel, and the user is
\* listed once
C16_Witness ==
    \E ch \in DOMAIN channels : \E c1, c2 \in channels[ch] \cap connections :
        /\ c1 # c2
        /\ UserOf(c1) = UserOf(c2)
        /\ <<UserOf(c1)>> \in GetActiveUsersInChannel(ch)

\* C17: the list of users in the presence message is in first-seen order: when
\* session 1 (alice) has joined the empty channel and the second frame of the
\* run is the join of session 2 (bob), the list is alice, bob.
C17_FirstSeenOrder ==
    (/\ dpc = "presence_bcast"
     /\ JoinOf(2)
     /\ dmsg.id = <<2, 2>>
     /\ dmsg.channel \in DOMAIN channels
     /\ channels[dmsg.channel] = {1, 2}
     /\ {1, 2} \subseteq connections)
        => dusers = <<"alice", "bob">>

\* C18: every synthesized system:user_joined envelope has the sender "system"
\* and names in payload.user the user of the session that sent the join,
\* whatever sender the client wrote into its frame.
C18_JoinedNamesOriginator ==
    (dout # NoMsg /\ dout.type = "system:user_joined")
        => (dout.sender = "system" /\ dout.payload.user = UserOf(dconn))

\* C19: the step that calls the disconnect hook for a session shows the hook
\* the session still registered and still a member of every channel it has
\* subscribed to, and the same step removes the session from the registry and
\* from every channel set.
C19_HookBeforeRemoval ==
    [][\A c \in ConnIDs :
          onDisconnectCalls'[c] > onDisconnectCalls[c]
              => /\ c \in connections
                 /\ hookSaw'[c].registered
                 /\ hookSaw'[c].subscribed
                 /\ c \notin connections'
                 /\ \A ch \in DOMAIN channels' : c \notin channels'[ch]]_vars

\* the hook has run for a session whose join had been announced to a channel:
\* it found the session registered and subscribed, and the session is gone
C19_Witness ==
    \E c \in HubConns :
        /\ onDisconnectCalls[c] = 1
        /\ hookSaw[c].registered
        /\ hookSaw[c].subscribed
        /\ c \notin connections
        /\ \A ch \in DOMAIN channels : c \notin channels[ch]
        /\ \E d \in ConnIDs : \E i \in 1 .. Len(Stream(d)) :
              /\ Stream(d)[i].type = "system:user_joined"
              /\ Stream(d)[i].payload.user = UserOf(c)

\* the session has been removed: the disconnect hook has run once and the id
\* is in neither the registry nor any channel set
Terminated(c) ==
    /\ onDisconnectCalls[c] = 1
    /\ c \notin connections
    /\ \A ch \in DOMAIN channels : c \notin channels[ch]

\* C20: a registered session whose read deadline has passed is terminated in
\* the end: the disconnect hook runs, never more than once, and from then on
\* the session id is in neither the registry nor any channel set.
C20_ExpiredIsTerminated ==
    /\ \A c \in HubConns : expired[c] ~> [](Terminated(c))
    /\ [](\A c \in ConnIDs : onDisconnectCalls[c] <= 1)

\* a session whose deadline has passed while its reader is in ReadJSON is
\* terminated in the end
ExpiredInReadIsTerminated ==
    \A c \in HubConns : (expired[c] /\ rpc[c] = "read") ~> [](Terminated(c))

\* C21: no registered session has a closed outbox or a writer that has
\* returned.
C21_RegisteredNotTerminal ==
    \A c \in connections : ~outClosed[c] /\ wpc[c] # "done"

\* C22: a session whose writer has returned on a write error leaves the
\* registry in the end, and the disconnect hook is called for it.
C22_WriteErrorTerminates ==
    \A c \in HubConns :
        wpc[c] = "done" ~> (c \notin connections /\ onDisconnectCalls[c] >= 1)

\* C23: a frame that arrives at a reader, decodable or not, ends no reader,
\* removes no session and calls no disconnect hook.
C23_MalformedFrameIsDropped ==
    [][nread' > nread =>
          /\ connections' = connections
          /\ onDisconnectCalls' = onDisconnectCalls
          /\ \A c \in ConnIDs : rpc[c] = "read" => rpc'[c] \in {"read", "enqueue"}]_vars

\* the step of a reader whose frame the before hook refuses
RejectStep == nread' > nread /\ rmsg' = rmsg /\ rpc' = rpc

\* C24: a message the before hook refuses is never in the work queue nor in
\* the hands of the dispatcher, and the step that refuses it changes no queue,
\* no outbox, no transport and no hook count, and leaves every session
\* registered and every reader where it was.
C24_RejectedIsDropped ==
    /\ [](\A i \in 1 .. Len(messageQueue) :
              DefaultBeforeHook(messageQueue[i].msg) = "nil")
    /\ [](dpc \notin {"idle", "exited"} => DefaultBeforeHook(dmsg) = "nil")
    /\ [][RejectStep =>
              UNCHANGED <<registry, outbox, wsClosed, messageQueue, wpc, dispatcher,
                          onDisconnectCalls, wire>>]_vars

\* frames have arrived, all of them were refused: nothing is queued, in
\* dispatch or written, no after hook has run, and both sessions are
\* registered with their readers in ReadJSON
C24_Witness ==
    /\ nread = MaxMsgs + 1
    /\ afterCalls = 0
    /\ messageQueue = <<>>
    /\ dpc = "idle"
    /\ \A c \in HubConns :
          c \in connections /\ rpc[c] = "read" /\ outChan[c] = <<>> /\ wire[c] = <<>>

\* a session whose writer has returned and whose read deadline has passed
\* leaves the registry in the end, with the disconnect hook called
SilentAfterWriteErrorTerminates ==
    \A c \in HubConns :
        (wpc[c] = "done" /\ expired[c])
            ~> (c \notin connections /\ onDisconnectCalls[c] >= 1)

\* the registered handler of the message returns an error
ReturnsError(msg) ==
    \/ msg.type = "chat:group" /\ msg.channel = ""
    \/ msg.type = "chat:private" /\ msg.recipient = ""
    \/ msg.type \in {"chat", "notification", "event"} /\ msg.payload.isNil

\* the step of the handler or the default route of the message in dispatch
HandlerStep == dpc = "handler" /\ dpc' # "handler"

\* C25: when the registered handler returns an error, nothing is sent or
\* routed for the message (no outbox, no transport and no fan-out changes), the
\* dispatcher goes on to the after hook, which runs once per message taken from
\* the queue, and then the dispatcher is back at the queue and takes the next
\* message.
C25_HandlerErrorStillAfterHook ==
    /\ [][(HandlerStep /\ ReturnsError(dmsg)) =>
              /\ dpc' = "after"
              /\ UNCHANGED <<registry, outbox, wire, dout, dpending, afterCalls>>]_vars
    /\ [][dpc = "after" /\ dpc' # "after" =>
              dpc' = "idle" /\ afterCalls' = afterCalls + 1]_vars
    /\ [][afterCalls' # afterCalls => dpc = "after"]_vars
    /\ [](dpc = "idle" /\ messageQueue # <<>> => ENABLED ProcessTake)

\* the dispatcher is at the after hook of a second message whose handler
\* returned an error, after the hook has run for the first
C25_Witness ==
    /\ dpc = "after"
    /\ ReturnsError(dmsg)
    /\ afterCalls = MaxMsgs
    /\ \A c \in ConnIDs : outChan[c] = <<>> /\ wire[c] = <<>>

\* the step sends the message in dispatch to the sessions of its recipient
\* and to no others: the transports written are among them, all of them when
\* the step completes, and no fan-out over outboxes starts
ToRecipient ==
    /\ dpending' = dpending
    /\ dout' = dout
    /\ \A c \in ConnIDs :
          wire'[c] # wire[c] =>
              c \in UserConns(dmsg.recipient) /\ wire'[c] = Append(wire[c], dmsg)
    /\ dpc' = "after" => wire' = Written(UserConns(dmsg.recipient), dmsg)

\* the step starts the fan-out of the message in dispatch over the sessions
\* of D, the sender not excluded, and writes to no transport
FanoutOver(D) ==
    /\ wire' = wire
    /\ IF D = {}
       THEN dpc' = "after"
       ELSE dpc' = "lookup" /\ dpending' = D /\ dout' = dmsg

\* the step routes the message in dispatch by the priority recipient,
\* channel, everyone
DefaultRouted ==
    IF dmsg.recipient # "" THEN ToRecipient
    ELSE IF dmsg.channel # "" THEN FanoutOver(Destinations("channel", dmsg))
    ELSE FanoutOver(connections)

C27_LoggedTypesAreRouted ==
    [][(HandlerStep /\ dmsg.type \in {"notification", "alert", "event", "event:custom"})
          => DefaultRouted]_vars

\* C28: a message:delete goes to the sessions of its channel whenever it has
\* a channel, and to the sessions of its recipient only when it has a
\* recipient and no channel.
C28_DeleteChannelFirst ==
    [][(HandlerStep /\ dmsg.type = "message:delete") =>
          IF dmsg.channel # "" THEN FanoutOver(Destinations("channel", dmsg))
          ELSE IF dmsg.recipient # "" THEN ToRecipient
          ELSE TRUE]_vars

\* C29: for every chat or chat:group message that reaches its handler,
\* ChatHandler and GroupChatHandler agree on it: both return an error or
\* neither does, and both reach the same sessions.
C29_ChatAsGroup ==
    (dpc = "handler" /\ dmsg.type \in {"chat", "chat:group"}) =>
        /\ (ChatVia(dmsg) = "error") = (GroupChatVia(dmsg) = "error")
        /\ Destinations(ChatVia(dmsg), dmsg) = Destinations(GroupChatVia(dmsg), dmsg)

\* chat and chat:group agree on the messages that have a payload and a
\* channel and no recipient
ChatAsGroupOnChannelMessages ==
    (/\ dpc = "handler"
     /\ dmsg.type \in {"chat", "chat:group"}
     /\ ~dmsg.payload.isNil
     /\ dmsg.recipient = ""
     /\ dmsg.channel # "") =>
        /\ ChatVia(dmsg) = GroupChatVia(dmsg)
        /\ Destinations(ChatVia(dmsg), dmsg) = Destinations(GroupChatVia(dmsg), dmsg)

\* C30: in every topology, removeConnection of any id leaves the id in
\* neither the registry nor any channel set and leaves no empty channel
\* entry behind, touches nothing of the other sessions, calls the hook once
\* for a registered id, and applied a second time changes nothing and calls
\* no hook.
C30_UnregisterIdempotent ==
    \A c \in ConnIDs :
        LET once == Unregister(Topology, c)
            twice == Unregister(once, c)
        IN  /\ once.connections = connections \ {c}
            /\ once.connectionWSMap = connectionWSMap \ {c}
            /\ DOMAIN once.channels =
                  {ch \in DOMAIN channels : channels[ch] \ {c} # {}}
            /\ \A ch \in DOMAIN once.channels : once.channels[ch] = channels[ch] \ {c}
            /\ \A d \in ConnIDs \ {c} :
                  /\ once.connChannels[d] = connChannels[d]
                  /\ once.onDisconnectCalls[d] = onDisconnectCalls[d]
            /\ once.onDisconnectCalls[c] =
                  onDisconnectCalls[c] + (IF c \in connections THEN 1 ELSE 0)
            /\ twice = once

\* a registered session is the only member of a channel while another
\* session is registered: its removal deletes the channel entry, and a second
\* removal changes nothing
C30_Witness ==
    \E c \in connections : \E d \in connections \ {c} : \E ch \in DOMAIN channels :
        /\ channels[ch] = {c}
        /\ ch \notin DOMAIN Unregister(Topology, c).channels
        /\ d \in Unregister(Topology, c).connections
        /\ Unregister(Unregister(Topology, c), c) = Unregister(Topology, c)

\* C31: in every topology, for every registered session and channel,
\* SubscribeToChannel puts the channel into the session's subscription set and
\* the session into the channel's set, changes nothing else, and applied a
\* second time returns the same topology.
C31_SubscribeIdempotent ==
    \A c \in connections : \A ch \in Channels :
        LET once == Subscribed(Topology, c, ch)
            twice == Subscribed(once, c, ch)
        IN  /\ once.connections = connections
            /\ once.connectionWSMap = connectionWSMap
            /\ once.connChannels = [connChannels EXCEPT ![c] = @ \cup {ch}]
            /\ DOMAIN once.channels = DOMAIN channels \cup {ch}
            /\ \A k \in DOMAIN once.channels :
                  once.channels[k] = (IF k \in DOMAIN channels THEN channels[k] ELSE {})
                                        \cup (IF k = ch THEN {c} ELSE {})
            /\ twice = once

\* a registered session subscribes to a channel that has no entry yet: the
\* first call changes the topology and the second does not
C31_Witness ==
    \E c \in connections : \E ch \in Channels :
        /\ ch \notin DOMAIN channels
        /\ Subscribed(Topology, c, ch) # Topology
        /\ Subscribed(Topology, c, ch).channels[ch] = {c}
        /\ Subscribed(Subscribed(Topology, c, ch), c, ch) = Subscribed(Topology, c, ch)

\* C32: in every topology no channel entry is an empty set; unsubscribing a
\* registered session from a channel it is not in returns the same topology;
\* unsubscribing leaves no empty entry behind, so the entry of a channel whose
\* only member unsubscribes is gone.
C32_UnsubscribeFrame ==
    /\ \A ch \in DOMAIN channels : channels[ch] # {}
    /\ \A c \in connections : \A ch \in Channels :
          LET after == Unsubscribed(Topology, c, ch)
          IN  /\ (ch \notin connChannels[c] /\ (ch \in DOMAIN channels => c \notin channels[ch]))
                    => after = Topology
              /\ \A k \in DOMAIN after.channels : after.channels[k] # {}
              /\ (ch \in DOMAIN channels /\ channels[ch] = {c})
                    => ch \notin DOMAIN after.channels
              /\ ch \notin after.connChannels[c]

\* one registered session is the only member of a channel and another
\* registered session is not in it: unsubscribing the first deletes the
\* entry, unsubscribing the second changes nothing
C32_Witness ==
    \E c \in connections : \E d \in connections \ {c} : \E ch \in DOMAIN channels :
        /\ channels[ch] = {c}
        /\ ch \notin DOMAIN Unsubscribed(Topology, c, ch).channels
        /\ Unsubscribed(Topology, d, ch) = Topology

\* an enqueue on a closed outbox adds nothing to any outbox and its panic
\* does not leave SendToConnection
ClosedEnqueueIsContained ==
    [][SelectStep /\ outClosed[dtarget]
          => /\ outChan' = outChan
             /\ dpc' # "crashed"
             /\ lastSend' = "recovered"]_vars

\* C33: an enqueue on a session whose outbox the writer has closed adds
\* nothing to the outbox, lets no failure escape into the dispatcher, and
\* returns an error rather than the nil of a delivered envelope.
C33_ClosedEnqueueReportsDrop ==
    [][SelectStep /\ outClosed[dtarget]
          => /\ outChan' = outChan
             /\ dpc' # "crashed"
             /\ SendToConnectionError(lastSend') # "nil"]_vars

\* the envelopes of one sending session that went through the outbox of a
\* destination are written to its transport in the order they were read
OrderedThroughOutbox ==
    \A d \in ConnIDs :
        LET q == SelectSeq(wire[d], LAMBDA m : m.recipient = "")
        IN  \A i, j \in 1 .. Len(q) :
               (i < j /\ q[i].id[1] = q[j].id[1]) => q[i].id[2] < q[j].id[2]

\* C34: on every transport the envelopes of one sending session appear in
\* the order in which that session's reader read them, whatever their routes.
C34_SenderOrderKept ==
    \A d \in ConnIDs : \A i, j \in 1 .. Len(wire[d]) :
        (i < j /\ wire[d][i].id[1] = wire[d][j].id[1])
            => wire[d][i].id[2] < wire[d][j].id[2]

\* the step of a handler that calls broadcastToChannel for a channel that
\* has no entry in s.channels
AbsentChannelStep ==
    /\ HandlerStep
    /\ \/ dmsg.type = "chat:group" /\ GroupChatVia(dmsg) = "channel"
       \/ dmsg.type = "chat" /\ ChatVia(dmsg) = "channel"
    /\ dmsg.channel \notin DOMAIN channels

\* a broadcast to a channel without entry changes no outbox, no transport and
\* no topology state, and the dispatcher goes on to the after hook
AbsentChannelChangesNothing ==
    [][AbsentChannelStep
          => /\ UNCHANGED <<registry, outbox, wire, dpending>>
             /\ dpc' = "after"]_vars

\* C35: a broadcast to a channel that has no entry in the registry returns
\* no error and changes no outbox and no topology state.
C35_AbsentChannelSucceeds ==
    [][AbsentChannelStep
          => /\ broadcastToChannelError(dmsg.channel) = "nil"
             /\ UNCHANGED <<registry, outbox>>]_vars

\* no registered session belongs to the user
NoSessionOf(userID) == \A c \in connections : UserOf(c) # userID

\* the step of a handler or of the default route that calls sendToUser
UserStep ==
    /\ HandlerStep
    /\ dmsg.recipient # ""
    /\ dmsg.type = "chat:private" \/ dmsg.type \notin Registered

\* C36: sending to a user without registered sessions returns no error,
\* writes to no transport and changes no outbox and no topology state; the
\* dispatcher goes on to the after hook.
C36_NoSessionsIsValidTarget ==
    [][UserStep /\ NoSessionOf(dmsg.recipient)
          => /\ sendToUserError(dmsg.recipient) = "nil"
             /\ UNCHANGED <<registry, outbox, wire, underLock>>
             /\ dpc' = "after"]_vars

\* a message to a user without sessions has been sent while another
\* user's session was registered with its writer running, and no transport
\* was ever written to
C36_Witness ==
    /\ dpc = "after"
    /\ dmsg.recipient # ""
    /\ dmsg.sender # dmsg.recipient
    /\ NoSessionOf(dmsg.recipient)
    /\ "WriteJSON" \notin underLock
    /\ \E c \in connections : wpc[c] = "run" /\ ~wsClosed[c]
    /\ \A c \in ConnIDs : wire[c] = <<>> /\ outChan[c] = <<>>

\* every frame read so far has been through the dispatcher and its after
\* hook, and none is waiting
AllDispatched ==
    /\ dpc = "idle"
    /\ messageQueue = <<>>
    /\ \A c \in ConnIDs : rpc[c] # "enqueue"
    /\ afterCalls = nread

\* the work queue never holds more than its capacity, a reader with a frame
\* for a full queue keeps the frame, the queue grows only by a reader's
\* frame at its end and shrinks only by the dispatcher taking its head, and
\* the after hook is called once per message taken
QueueBlocksAndIsTakenOnce ==
    /\ [](Len(messageQueue) <= QueueCap)
    /\ [](afterCalls <= nread)
    /\ [][\A c \in ConnIDs :
            (rpc[c] = "enqueue" /\ rpc'[c] # "enqueue")
               => messageQueue' = Append(messageQueue, [conn |-> c, msg |-> rmsg[c]])]_vars
    /\ [][messageQueue' # messageQueue
            => \/ \E c \in ConnIDs :
                    /\ rpc[c] = "enqueue"
                    /\ messageQueue' = Append(messageQueue, [conn |-> c, msg |-> rmsg[c]])
               \/ /\ dpc = "idle" /\ dpc' = "handler"
                  /\ messageQueue # <<>>
                  /\ dmsg' = Head(messageQueue).msg
                  /\ messageQueue' = Tail(messageQueue)]_vars
    /\ [][afterCalls' # afterCalls
            => dpc = "after" /\ dpc' = "idle" /\ afterCalls' = afterCalls + 1]_vars

\* unless the dispatcher goroutine has ended in a panic, every frame read is
\* in the end dispatched and followed by its after hook
DispatchedUnlessCrashed == <>[](dpc = "crashed" \/ AllDispatched)

\* C37: with no shutdown, every envelope placed on the work queue is in the
\* end taken by the dispatcher, routed, and followed by one call of the
\* after hook; none is left waiting in the queue or in a blocked reader.
C37_EveryEnvelopeDispatched == <>[]AllDispatched

\* the transport of c receives a frame in this step
WireGrows(c) == Len(wire'[c]) > Len(wire[c])

\* the step is the writer of c writing the head of its outbox
WriterWrites(c) ==
    /\ wpc[c] = "run"
    /\ outChan[c] # <<>>
    /\ wire'[c] = Append(wire[c], Head(outChan[c]))
    /\ outChan'[c] = Tail(outChan[c])

\* outside the calls of sendToUser every frame a transport receives is
\* written by the session's writer from its outbox
OnlyWriterWritesBroadcasts ==
    [][\A c \in ConnIDs : (WireGrows(c) /\ ~UserStep) => WriterWrites(c)]_vars

\* C38: every frame a session's transport receives is written by that
\* session's writer goroutine after it was taken from the outbox, and no
\* dispatcher-side delivery runs into a write of the writer.
C38_SingleWriter ==
    [][/\ \A c \in ConnIDs : WireGrows(c) => WriterWrites(c)
       /\ dpc' # "crashed"]_vars

\* C39: after the reader of a session has returned, its writer returns in
\* the end and the outbox is closed; an outbox is closed only by the step in
\* which its writer returns, and a closed outbox stays closed.
C39_WriterFollowsReader ==
    /\ \A c \in HubConns : (rpc[c] = "done") ~> (wpc[c] = "done" /\ outClosed[c])
    /\ [](\A c \in ConnIDs : outClosed[c] <=> wpc[c] = "done")
    /\ [][\A c \in ConnIDs :
            outClosed'[c] # outClosed[c]
               => wpc[c] = "run" /\ wpc'[c] = "done" /\ outClosed'[c]]_vars

\* with no shutdown, a session whose read deadline passed is gone from the
\* registry, both its goroutines have returned and its outbox is closed
C39_Witness ==
    \E c \in HubConns :
        /\ ~done
        /\ expired[c]
        /\ rpc[c] = "done"
        /\ wpc[c] = "done"
        /\ outClosed[c]
        /\ c \notin connections

\* the id is in neither map, in no channel set and has no subscriptions: the
\* topology holds nothing of it, as before its accept
AbsentFromTopology(c) ==
    /\ c \notin connections
    /\ c \notin connectionWSMap
    /\ connChannels[c] = {}
    /\ \A ch \in DOMAIN channels : c \notin channels[ch]

\* C40: when the connect hook of an admitted session fails, HandleConnection
\* takes the session out of both maps and of every channel set, starts
\* neither goroutine and closes the transport, and changes nothing of other
\* sessions; afterwards the topology holds nothing of the session, as before
\* the accept.
C40_HookErrorUndoesAccept ==
    /\ [][\A c \in ConnIDs :
            (hpc[c] = "inserted" /\ hpc'[c] = "failed")
               => /\ connections' = connections \ {c}
                  /\ connectionWSMap' = connectionWSMap \ {c}
                  /\ channels' = DeleteFrom(channels, c, Channels)
                  /\ \A d \in ConnIDs \ {c} : connChannels'[d] = connChannels[d]
                  /\ connChannels'[c] = {}
                  /\ rpc'[c] = "none" /\ wpc'[c] = "none"
                  /\ wsClosed'[c]]_vars
    /\ [](\A c \in ConnIDs :
            /\ hpc[c] \in {"free", "checked", "failed"} => AbsentFromTopology(c)
            /\ hpc[c] = "failed" => rpc[c] = "none" /\ wpc[c] = "none" /\ wsClosed[c])

\* the connect hook of a session failed while another session is registered
\* and subscribed: the failed session is gone through removeConnection, with
\* no goroutine started, and the other session is still there
C40_Witness ==
    \E c \in ConnIDs : \E d \in connections \ {c} :
        /\ hpc[c] = "failed"
        /\ AbsentFromTopology(c)
        /\ onDisconnectCalls[c] = 1
        /\ wsClosed[c]
        /\ rpc[c] = "none" /\ wpc[c] = "none"
        /\ connChannels[d] # {}

====
